---- MODULE Spec2Model ----
(***************************************************************************)
(* A model of the persona simulation run engine (persona_sim.sim):         *)
(*   - the trust heuristic (sim/heuristics.py), in fixed point;            *)
(*   - the graph nodes and their routing (sim/graph/nodes.py, graph.py);   *)
(*   - the persistence helpers (db/repositories/sim_repo.py);              *)
(*   - the service that validates, runs and retrieves (sim/service.py).    *)
(*                                                                         *)
(* Real numbers are fixed point, in thousandths: 0.05 is 50, 1.0 is 1000.  *)
(* Personas and stimuli are named by their position in the caller's list,  *)
(* so a list is given by its length.  Timestamps and free text that no     *)
(* decision of the code reads are left out of the events.                  *)
(***************************************************************************)
EXTENDS Integers, Sequences, FiniteSets, TLC

(***************************************************************************)
(* Bounds of the model.                                                    *)
(***************************************************************************)
MaxPersonas == 2
MaxStimuli == 2
MaxSteps == 3
MaxRuns == 2
MaxObjections == 2
MaxHeurSteps == 2
MaxReplyObjections == 1
MaxTransportFailures == 3
MaxInitialTurn == 4
MaxConcTurns == 2
MaxModePersonas == 4
MaxModeTurns == 2
MaxGwEvents == 2
MaxFloatSteps == 2

(***************************************************************************)
(* Program constants.                                                      *)
(***************************************************************************)
One == 1000
DEFAULT_TRUST == 500
DEFAULT_FATIGUE == 0
DEFAULT_RISK_TOLERANCE == 500
YesTrust == 50
YesFatigue == 30
ReluctantTrust == 20
ReluctantFatigue == 20
NoTrust == 50
NoFatigue == 30
HighTrustPenalty == 30
HighFatiguePenalty == 20
RiskFatigueWeight == 200
VALIDATION_ATTEMPTS == 3

WillDecision == {"yes", "no", "reluctant"}
ObjectionSeverity == {"low", "medium", "high"}
RunMode == {"single-turn", "multi-turn"}

Max(a, b) == IF a >= b THEN a ELSE b
Min(a, b) == IF a <= b THEN a ELSE b

(***************************************************************************)
(* sim/heuristics.py                                                       *)
(***************************************************************************)
ClampNoUpper(value) == Max(0, value)

\* _clamp: max(0.0, min(1.0, value))
Clamp(value) == Max(0, Min(One, value))

\* sum(1 for obj in response.objections if obj.severity is HIGH)
RECURSIVE CountHigh(_)
CountHigh(objections) ==
    IF objections = <<>> THEN 0
    ELSE (IF Head(objections) = "high" THEN 1 ELSE 0) + CountHigh(Tail(objections))

HeuristicsIgnoringObjections(previous, response, mode) ==
    LET trust == IF response.stance = "yes" THEN previous.trust_score + YesTrust
                 ELSE IF response.stance = "reluctant"
                      THEN previous.trust_score - ReluctantTrust
                      ELSE previous.trust_score - NoTrust
        fatigue == IF response.stance = "yes" THEN previous.fatigue_score - YesFatigue
                   ELSE IF response.stance = "reluctant"
                        THEN previous.fatigue_score + ReluctantFatigue
                        ELSE previous.fatigue_score + NoFatigue
    IN  [trust_score |-> Clamp(trust),
         fatigue_score |-> Clamp(fatigue),
         risk_tolerance |->
             Clamp(Max(0, previous.risk_tolerance
                          - (Clamp(fatigue) * RiskFatigueWeight) \div One))]

HeuristicsRiskFromOldFatigue(previous, response, mode) ==
    LET high_objections == CountHigh(response.objections)
        trust == IF response.stance = "yes" THEN previous.trust_score + YesTrust
                 ELSE IF response.stance = "reluctant"
                      THEN previous.trust_score - ReluctantTrust
                      ELSE previous.trust_score - NoTrust
        fatigue == IF response.stance = "yes" THEN previous.fatigue_score - YesFatigue
                   ELSE IF response.stance = "reluctant"
                        THEN previous.fatigue_score + ReluctantFatigue
                        ELSE previous.fatigue_score + NoFatigue
    IN  [trust_score |-> Clamp(trust - HighTrustPenalty * high_objections),
         fatigue_score |-> Clamp(fatigue + HighFatiguePenalty * high_objections),
         risk_tolerance |->
             Clamp(Max(0, previous.risk_tolerance
                          - (previous.fatigue_score * RiskFatigueWeight) \div One))]

HeuristicsHarsherOnAntiPersona(previous, response, mode) ==
    LET base == HeuristicsRiskFromOldFatigue(previous, response, mode)
    IN  IF mode = "anti_persona"
        THEN [base EXCEPT !.trust_score = Clamp(@ - NoTrust)]
        ELSE base

\* apply_persona_heuristics(previous, response, mode): the stance branch, the
\* penalty per high objection, the clamps, then risk_tolerance from the
\* previous risk_tolerance and the clamped new fatigue, over exact decimals
\* in thousandths: fatigue * 0.2 is (fatigue * 200) / 1000.  The rounding of
\* the interpreter's floats is in apply_persona_heuristics_f64 below.
apply_persona_heuristics(previous, response, mode) ==
    LET trust0 == previous.trust_score
        fatigue0 == previous.fatigue_score
        base_risk == previous.risk_tolerance
        trust1 == IF response.stance = "yes" THEN trust0 + YesTrust
                  ELSE IF response.stance = "reluctant" THEN trust0 - ReluctantTrust
                  ELSE trust0 - NoTrust
        fatigue1 == IF response.stance = "yes" THEN fatigue0 - YesFatigue
                    ELSE IF response.stance = "reluctant" THEN fatigue0 + ReluctantFatigue
                    ELSE fatigue0 + NoFatigue
        high_objections == CountHigh(response.objections)
        trust2 == trust1 - HighTrustPenalty * high_objections
        fatigue2 == fatigue1 + HighFatiguePenalty * high_objections
        trust == Clamp(trust2)
        fatigue == Clamp(fatigue2)
        risk_tolerance == Clamp(Max(0, base_risk - (fatigue * RiskFatigueWeight) \div One))
    IN  [trust_score |-> trust,
         fatigue_score |-> fatigue,
         risk_tolerance |-> risk_tolerance]

(***************************************************************************)
(* sim/heuristics.py in the arithmetic the interpreter uses: TrustState    *)
(* scores are Python floats, IEEE-754 binary64, and every + - * rounds its *)
(* exact result to 53 significant bits, ties to even.  A value is held     *)
(* exactly, as a sign and a whole number of units of 2^-113 written in     *)
(* Digits digits of base 2^13, least significant first.  2^-113 is fine    *)
(* enough: the literals and the start values below are multiples of 2^-58, *)
(* sums and differences of such values stay so, and the one product,       *)
(* fatigue * 0.2, is a multiple of 2^-58 times a multiple of 2^-55.        *)
(***************************************************************************)
DigitBits == 13
Base == 2^DigitBits
Digits == 9
SignificantBits == 53

BigZero == [i \in 1..Digits |-> 0]

RECURSIVE BigAddFrom(_, _, _, _)
BigAddFrom(a, b, i, carry) ==
    IF i > Digits THEN <<>>
    ELSE LET s == a[i] + b[i] + carry
         IN  <<s % Base>> \o BigAddFrom(a, b, i + 1, s \div Base)

BigAdd(a, b) == BigAddFrom(a, b, 1, 0)

\* a - b for a >= b
RECURSIVE BigSubFrom(_, _, _, _)
BigSubFrom(a, b, i, borrow) ==
    IF i > Digits THEN <<>>
    ELSE LET d == a[i] - b[i] - borrow
         IN  IF d < 0 THEN <<d + Base>> \o BigSubFrom(a, b, i + 1, 1)
             ELSE <<d>> \o BigSubFrom(a, b, i + 1, 0)

BigSub(a, b) == BigSubFrom(a, b, 1, 0)

RECURSIVE BigLessFrom(_, _, _)
BigLessFrom(a, b, i) ==
    IF i = 0 THEN FALSE
    ELSE IF a[i] # b[i] THEN a[i] < b[i]
    ELSE BigLessFrom(a, b, i - 1)

BigLess(a, b) == BigLessFrom(a, b, Digits)

RECURSIVE ConvolutionSum(_, _, _, _)
ConvolutionSum(a, b, k, i) ==
    IF i > k THEN 0
    ELSE a[i] * b[k + 1 - i] + ConvolutionSum(a, b, k, i + 1)

\* a * b; the product fits in Digits digits for the operands used here
RECURSIVE BigMulFrom(_, _, _, _)
BigMulFrom(a, b, k, carry) ==
    IF k > Digits THEN <<>>
    ELSE LET s == ConvolutionSum(a, b, k, 1) + carry
         IN  <<s % Base>> \o BigMulFrom(a, b, k + 1, s \div Base)

BigMul(a, b) == BigMulFrom(a, b, 1, 0)

BigOfInt(k) == [i \in 1..Digits |-> IF i = 1 THEN k ELSE 0]

BigPow2(s) ==
    [i \in 1..Digits |-> IF i = s \div DigitBits + 1 THEN 2^(s % DigitBits) ELSE 0]

RECURSIVE BitsOf(_)
BitsOf(d) == IF d = 0 THEN 0 ELSE 1 + BitsOf(d \div 2)

RECURSIVE TopDigit(_, _)
TopDigit(a, i) == IF i = 0 THEN 0 ELSE IF a[i] # 0 THEN i ELSE TopDigit(a, i - 1)

BitLength(a) ==
    LET t == TopDigit(a, Digits)
    IN  IF t = 0 THEN 0 ELSE DigitBits * (t - 1) + BitsOf(a[t])

\* the s lowest bits of a
LowBits(a, s) ==
    [i \in 1..Digits |->
        IF DigitBits * i <= s THEN a[i]
        ELSE IF DigitBits * (i - 1) >= s THEN 0
        ELSE a[i] % 2^(s - DigitBits * (i - 1))]

BitAt(a, s) == (a[s \div DigitBits + 1] \div 2^(s % DigitBits)) % 2

\* a \div 2^s
ShiftRight(a, s) ==
    LET q == s \div DigitBits
        r == s % DigitBits
        digit(i) == IF i > Digits THEN 0 ELSE a[i]
    IN  [i \in 1..Digits |->
            digit(i + q) \div 2^r + (digit(i + q + 1) % 2^r) * 2^(DigitBits - r)]

\* the nearest binary64 value, ties to even
RoundToDouble(a) ==
    LET len == BitLength(a)
    IN  IF len <= SignificantBits THEN a
        ELSE LET s == len - SignificantBits
                 low == LowBits(a, s)
                 kept == BigSub(a, low)
                 half == BigPow2(s - 1)
                 up == BigLess(half, low) \/ (low = half /\ BitAt(a, s) = 1)
             IN  IF up THEN BigAdd(kept, BigPow2(s)) ELSE kept

Float(neg, mag) == [neg |-> neg /\ mag # BigZero, mag |-> mag]

FloatNeg(x) == Float(~x.neg, x.mag)

FloatLess(x, y) ==
    IF x.neg /\ ~y.neg THEN TRUE
    ELSE IF ~x.neg /\ y.neg THEN FALSE
    ELSE IF x.neg THEN BigLess(y.mag, x.mag)
    ELSE BigLess(x.mag, y.mag)

\* x + y
FloatAdd(x, y) ==
    IF x.neg = y.neg THEN Float(x.neg, RoundToDouble(BigAdd(x.mag, y.mag)))
    ELSE IF BigLess(x.mag, y.mag)
         THEN Float(y.neg, RoundToDouble(BigSub(y.mag, x.mag)))
         ELSE Float(x.neg, RoundToDouble(BigSub(x.mag, y.mag)))

\* x - y
FloatSub(x, y) == FloatAdd(x, FloatNeg(y))

\* x * k for an int k >= 0 (k converts to a float exactly)
FloatMulInt(x, k) == Float(x.neg, RoundToDouble(BigMul(x.mag, BigOfInt(k))))

\* x * y for x a multiple of 2^-58 and y a multiple of 2^-55
FloatMul(x, y) ==
    Float(x.neg # y.neg,
          RoundToDouble(BigMul(ShiftRight(x.mag, 55), ShiftRight(y.mag, 58))))

FloatMax(x, y) == IF FloatLess(x, y) THEN y ELSE x
FloatMin(x, y) == IF FloatLess(y, x) THEN y ELSE x

\* the float literals of heuristics.py and nodes.py
F_0_0 == Float(FALSE, BigZero)
\* 1.0
F_1_0 == Float(FALSE, <<0, 0, 0, 0, 0, 0, 0, 0, 512>>)
\* 0.5
F_0_5 == Float(FALSE, <<0, 0, 0, 0, 0, 0, 0, 0, 256>>)
\* 0.05 = 0x1.999999999999ap-5
F_0_05 == Float(FALSE, <<0, 0, 0, 0, 6560, 3276, 1638, 4915, 25>>)
\* 0.03 = 0x1.eb851eb851eb8p-6
F_0_03 == Float(FALSE, <<0, 0, 0, 0, 5568, 327, 983, 2949, 15>>)
\* 0.02 = 0x1.47ae147ae147bp-6
F_0_02 == Float(FALSE, <<0, 0, 0, 0, 984, 2949, 655, 1966, 10>>)
\* 0.2 = 0x1.999999999999ap-3
F_0_2 == Float(FALSE, <<0, 0, 0, 0, 1664, 4915, 6553, 3276, 102>>)

\* _clamp: max(0.0, min(1.0, value))
clamp_f64(value) == FloatMax(F_0_0, FloatMin(F_1_0, value))

RiskToleranceRecovering(base_risk, fatigue) ==
    clamp_f64(FloatMax(F_0_0, FloatAdd(base_risk, FloatMul(fatigue, F_0_2))))

\* _clamp(max(0.0, base_risk - fatigue * 0.2))
risk_tolerance_f64(base_risk, fatigue) ==
    clamp_f64(FloatMax(F_0_0, FloatSub(base_risk, FloatMul(fatigue, F_0_2))))

\* apply_persona_heuristics on floats, statement by statement
apply_persona_heuristics_f64(previous, response, mode) ==
    LET trust0 == previous.trust_score
        fatigue0 == previous.fatigue_score
        base_risk == previous.risk_tolerance
        trust1 == IF response.stance = "yes" THEN FloatAdd(trust0, F_0_05)
                  ELSE IF response.stance = "reluctant" THEN FloatSub(trust0, F_0_02)
                  ELSE FloatSub(trust0, F_0_05)
        fatigue1 == IF response.stance = "yes" THEN FloatSub(fatigue0, F_0_03)
                    ELSE IF response.stance = "reluctant" THEN FloatAdd(fatigue0, F_0_02)
                    ELSE FloatAdd(fatigue0, F_0_03)
        high_objections == CountHigh(response.objections)
        trust2 == FloatSub(trust1, FloatMulInt(F_0_03, high_objections))
        fatigue2 == FloatAdd(fatigue1, FloatMulInt(F_0_02, high_objections))
        trust == clamp_f64(trust2)
        fatigue == clamp_f64(fatigue2)
    IN  [trust_score |-> trust,
         fatigue_score |-> fatigue,
         risk_tolerance |-> risk_tolerance_f64(base_risk, fatigue)]

(***************************************************************************)
(* State.                                                                  *)
(***************************************************************************)
VARIABLES
    pc,               \* where the call in flight stands; "idle" when none is
    entry,            \* "service" (start_run) or "graph" (the compiled graph invoked directly)
    result,           \* outcome of the latest call
    run_id,           \* GraphState.simulation.run_id (0: none)
    personas,         \* GraphState.simulation.personas, as their number
    mode,             \* GraphState.config.mode
    turns,            \* GraphState.config.turns, each the index of its stimulus
    current_turn,     \* GraphState.current_turn
    latest_responses, \* GraphState.latest_responses
    persona_states,   \* GraphState.simulation.persona_states: persona -> TrustState
    transcript,       \* GraphState.simulation.transcript
    outputs,          \* GraphState.simulation.outputs ("none" or a report)
    idx,              \* persona_response_node: position in its loop over the personas
    frame,            \* persona_response_node: its local simulation and response lists
    runs,             \* table simulation_runs: run id -> status ("none": no row)
    events,           \* table transcript_events, in id order
    reports,          \* table evaluation_reports: run id -> report ("none": no row)
    used,             \* run identifiers already handed out or supplied
    gwOps,            \* gateway operations made by the call in flight
    respCalls,        \* persona responder calls made by the call in flight
    respKinds,        \* kinds of replies the persona responder gave in this call
    evalRaised,       \* the evaluation responder raised in this call
    gwFailed,         \* a gateway operation of this call failed
    marked,           \* _mark_run_failed in this call: "no", "ok" or "swallowed"
    trace,            \* the graph nodes this call has entered, in order
    hprev,            \* heuristic exercise: TrustState before the latest update
    hcur,             \* heuristic exercise: current TrustState
    hresp,            \* heuristic exercise: the latest response summary
    hsteps,           \* heuristic exercise: updates applied
    vpc,              \* validator exercise: "idle", "invoke", "returned" or "raised"
    raw_response,     \* _parse_persona_response: the kind of raw reply it was given
    so_call,          \* invoke_structured calls _parse_persona_response has started
    attempt,          \* invoke_structured: validation attempts finished in this call
    tries,            \* the retryer: llm.invoke calls that raised in this attempt
    messages,         \* invoke_structured: the messages the next llm.invoke gets
    last_error,       \* invoke_structured: last_error
    last_content,     \* invoke_structured: last_content
    llm_calls,        \* every llm.invoke made: what it was sent and what came back
    vresult,          \* what _parse_persona_response gave: a value or an error
    persisted,        \* persist_node taken call by call: gateway calls it has made
    parked,           \* concurrent runs: the call that is waiting at an await
    persona_list,     \* mode exercise: simulation.personas, as the list of their ids
    persona_modes,    \* mode exercise: RunConfig.persona_modes, persona id -> mode
    resolved_modes    \* mode exercise: per turn, the mode resolved for each position

runVars == <<pc, entry, result, run_id, personas, mode, turns, current_turn,
             latest_responses, persona_states, transcript, outputs, idx, frame,
             runs, events, reports, used, gwOps, respCalls, respKinds, evalRaised,
             gwFailed, marked, trace>>
heurVars == <<hprev, hcur, hresp, hsteps>>
valVars == <<vpc, raw_response, so_call, attempt, tries, messages, last_error,
             last_content, llm_calls, vresult>>
concVars == <<persisted, parked>>
modeVars == <<persona_list, persona_modes, resolved_modes>>
vars == <<runVars, heurVars, valVars, concVars, modeVars>>

RunIds == 1..MaxRuns
ReportValues == {"report_a", "report_b"}
RunModeInputs == RunMode \cup {"invalid-mode"}

RECURSIVE SeqsUpTo(_, _)
SeqsUpTo(S, n) ==
    IF n = 0 THEN {<<>>}
    ELSE LET shorter == SeqsUpTo(S, n - 1)
         IN  shorter \cup {Append(q, x) : q \in {r \in shorter : Len(r) = n - 1}, x \in S}

ObjectionLists == SeqsUpTo(ObjectionSeverity, MaxObjections)

\* schemas/persona_response.py PersonaResponse, by the fields the nodes read
Payloads == [stance : WillDecision, objections : SeqsUpTo(ObjectionSeverity, MaxReplyObjections)]
BlankPayload == [stance |-> "yes", objections |-> <<>>]

(***************************************************************************)
(* Transcript events (schemas/transcript.py) and their metadata.           *)
(***************************************************************************)
NoneMeta ==
    [none |-> TRUE, step |-> 0, stance |-> "", severity |-> "", raw |-> <<>>, report |-> ""]

StepMetaZeroBased(step) == [NoneMeta EXCEPT !.none = FALSE, !.step = step - 1]

\* _attach_event: merged_meta.setdefault("step", step)
StepMeta(step) == [NoneMeta EXCEPT !.none = FALSE, !.step = step]

TranscriptEvent(event_type, actor, content, about, meta) ==
    [event_type |-> event_type, actor |-> actor, content |-> content,
     about |-> about, meta |-> meta]

AttachEventOnlyFirstQuestion(simulation_transcript, actor, event_type, content, about, step) ==
    IF event_type = "question" /\ step > 1
    THEN simulation_transcript
    ELSE Append(simulation_transcript,
                TranscriptEvent(event_type, actor, content, about,
                                IF step = 0 THEN NoneMeta ELSE StepMeta(step)))

AttachEventInFront(simulation_transcript, actor, event_type, content, about, step) ==
    <<TranscriptEvent(event_type, actor, content, about,
                      IF step = 0 THEN NoneMeta ELSE StepMeta(step))>>
        \o simulation_transcript

\* _attach_event: meta is None when neither meta nor step is given
attach_event(simulation_transcript, actor, event_type, content, about, step) ==
    Append(simulation_transcript,
           TranscriptEvent(event_type, actor, content, about,
                           IF step = 0 THEN NoneMeta ELSE StepMeta(step)))

\* _highest_severity
highest_severity(summary) ==
    IF \E i \in 1..Len(summary.objections) : summary.objections[i] = "high" THEN "high"
    ELSE IF \E i \in 1..Len(summary.objections) : summary.objections[i] = "medium"
         THEN "medium"
         ELSE "low"

\* _to_summary_from_payload
to_summary_from_payload(payload) ==
    [stance |-> payload.stance, objections |-> payload.objections]

\* _event_for_response: actor is the persona's name, here its position
event_for_response(persona, payload, summary, step) ==
    TranscriptEvent("answer", persona, "short_answer", 0,
                    [none |-> FALSE, step |-> step, stance |-> summary.stance,
                     severity |-> highest_severity(summary),
                     raw |-> payload.objections, report |-> ""])

(***************************************************************************)
(* sim/graph/state.py: PersonaResponse forbids extra fields.               *)
(***************************************************************************)
PersonaResponseFields == {"persona_id", "content", "stance", "objection_severity"}

\* the keyword arguments persona_response_node passes to PersonaResponse
PersonaResponseKwargs ==
    {"persona_id", "content", "persona_mode", "summary", "stance", "objection_severity"}

\* pydantic, extra="forbid": a keyword that is no field is a validation error
ExtraForbidden(kwargs, fields) == kwargs \ fields # {}

(***************************************************************************)
(* sim/graph/nodes.py and graph.py: helpers.                               *)
(***************************************************************************)
initialize_persona_state ==
    [trust_score |-> DEFAULT_TRUST, fatigue_score |-> DEFAULT_FATIGUE,
     risk_tolerance |-> DEFAULT_RISK_TOLERANCE]

MergeOverwriting(states, n) ==
    [p \in (DOMAIN states) \cup (1..n) |->
        IF p \in 1..n THEN initialize_persona_state ELSE states[p]]

\* _merge_persona_states: setdefault for every persona of the list
merge_persona_states(states, n) ==
    [p \in (DOMAIN states) \cup (1..n) |->
        IF p \in DOMAIN states THEN states[p] ELSE initialize_persona_state]

EdgesSkippingPersist(node) ==
    CASE node = "init" -> "respond"
      [] node = "respond" -> "update"
      [] node = "evaluate" -> "done"
      [] node = "persist" -> "done"

EdgesEvaluatingTwice(node) ==
    CASE node = "init" -> "respond"
      [] node = "respond" -> "update"
      [] node = "evaluate" -> "evaluate"
      [] node = "persist" -> "done"

\* build_simulation_graph: add_edge(init_run, persona_response),
\* (persona_response, update_state), (evaluator, persist), (persist, END)
graph_edge(node) ==
    CASE node = "init" -> "respond"
      [] node = "respond" -> "update"
      [] node = "evaluate" -> "persist"
      [] node = "persist" -> "done"

\* add_conditional_edges(update_state, _route_after_update, {...})
conditional_edge(route) == IF route = "continue" THEN "respond" ELSE "evaluate"

RouteNeverEvaluating(cur, m, ts) == "continue"

RouteInclusive(cur, m, ts) ==
    LET turn_count == IF Len(ts) = 0 THEN 1 ELSE Len(ts)
        max_turns == IF m = "single-turn" THEN 1 ELSE turn_count
    IN  IF cur <= max_turns THEN "continue" ELSE "evaluate"

RouteAlwaysByTurnCount(cur, m, ts) ==
    LET turn_count == IF Len(ts) = 0 THEN 1 ELSE Len(ts)
    IN  IF cur < turn_count THEN "continue" ELSE "evaluate"

\* _route_after_update
route_after_update(cur, m, ts) ==
    LET turn_count == IF Len(ts) = 0 THEN 1 ELSE Len(ts)
        max_turns == IF m = "single-turn" THEN 1 ELSE turn_count
    IN  IF cur < max_turns THEN "continue" ELSE "evaluate"

NextTurnSkipping(cur) == cur + 2

\* update_state_node: current_turn + 1
next_turn(cur) == cur + 1

\* update_state_node's loop over latest_responses
RECURSIVE ApplyResponses(_, _)
ApplyResponses(states, responses) ==
    IF responses = <<>> THEN states
    ELSE LET response == Head(responses)
             persona_state == IF response.persona_id \in DOMAIN states
                              THEN states[response.persona_id]
                              ELSE initialize_persona_state
             updated == apply_persona_heuristics(persona_state, response.summary,
                                                 response.persona_mode)
         IN  ApplyResponses(
                 [p \in (DOMAIN states) \cup {response.persona_id} |->
                     IF p = response.persona_id THEN updated ELSE states[p]],
                 Tail(responses))

ResolveIgnoringOverrides(persona_id, personas_seq, mode_map) ==
    LET fallback_modes == <<"economic_buyer", "daily_user", "anti_persona">>
        found == {i \in 1..Len(personas_seq) : personas_seq[i] = persona_id}
        index == IF found = {} THEN 0
                 ELSE (CHOOSE i \in found : \A j \in found : i <= j) - 1
    IN  fallback_modes[(index % Len(fallback_modes)) + 1]

\* _resolve_persona_mode: the override when the id is a key of mode_map, else
\* the fallback at (index of the first persona with that id, 0 when none)
\* modulo the number of fallback modes
resolve_persona_mode(persona_id, personas_seq, mode_map) ==
    LET fallback_modes == <<"economic_buyer", "daily_user", "anti_persona">>
        found == {i \in 1..Len(personas_seq) : personas_seq[i] = persona_id}
        index == IF found = {} THEN 0
                 ELSE (CHOOSE i \in found : \A j \in found : i <= j) - 1
    IN  IF persona_id \in DOMAIN mode_map THEN mode_map[persona_id]
        ELSE fallback_modes[(index % Len(fallback_modes)) + 1]

(***************************************************************************)
(* What the persona responder may give back, and what invoke_structured    *)
(* (sim/llm/structured.py) yields when _parse_persona_response falls back  *)
(* on it: a validated payload or StructuredOutputError.                    *)
(***************************************************************************)
StructuredResults ==
    [kind : {"value"}, payload : Payloads]
        \cup {[kind |-> "StructuredOutputError", payload |-> BlankPayload]}
NoStructured == [kind |-> "unused", payload |-> BlankPayload]

\* kind: "raise" (the responder raises), "typed" (a PersonaResponse payload),
\* "json_valid" (text that validates), "empty" (blank text), "json_invalid" (text
\* opening with { or [ that fails to parse or validate), "text" (other text);
\* first, second: the outcomes of the fallback calls that reply leads to
Replies ==
    {[kind |-> "raise", payload |-> BlankPayload, first |-> NoStructured,
      second |-> NoStructured]}
    \cup [kind : {"typed", "json_valid"}, payload : Payloads, first : {NoStructured},
          second : {NoStructured}]
    \cup [kind : {"empty", "text"}, payload : {BlankPayload}, first : StructuredResults,
          second : {NoStructured}]
    \cup [kind : {"json_invalid"}, payload : {BlankPayload},
          first : {r \in StructuredResults : r.kind = "value"}, second : {NoStructured}]
    \cup [kind : {"json_invalid"}, payload : {BlankPayload},
          first : {r \in StructuredResults : r.kind = "StructuredOutputError"},
          second : StructuredResults]

\* _parse_persona_response: [ok, payload]; not ok when invoke_structured raises
parse_persona_response(reply) ==
    LET asResult(r) == [ok |-> r.kind = "value", payload |-> r.payload]
    IN  IF reply.kind \in {"typed", "json_valid"}
        THEN [ok |-> TRUE, payload |-> reply.payload]
        ELSE IF reply.kind = "empty" THEN asResult(reply.first)
        ELSE IF reply.kind = "json_invalid"
             THEN IF reply.first.kind = "value" THEN asResult(reply.first)
                  ELSE asResult(reply.second)
             ELSE asResult(reply.first)

(***************************************************************************)
(* db/repositories/sim_repo.py                                             *)
(***************************************************************************)
NullJson == [null |-> TRUE, doc |-> NoneMeta]

\* json.dumps(event.meta)
JsonDumps(meta) == [null |-> FALSE, doc |-> meta]

\* add_event: the row written for an event
EventRow(r, event) ==
    [run_id |-> r, event_type |-> event.event_type, actor |-> event.actor,
     content |-> event.content, about |-> event.about,
     meta_json |-> IF ~event.meta.none THEN JsonDumps(event.meta) ELSE NullJson]

\* get_run: the event rebuilt from a row (json.loads when meta_json is set)
RowEvent(row) ==
    TranscriptEvent(row.event_type, row.actor, row.content, row.about,
                    IF ~row.meta_json.null THEN row.meta_json.doc ELSE NoneMeta)

SelectRunUnfiltered(rows, r) == [i \in 1..Len(rows) |-> RowEvent(rows[i])]

RECURSIVE SelectRun(_, _)
SelectRun(rows, r) ==
    IF rows = <<>> THEN <<>>
    ELSE IF Head(rows).run_id = r
         THEN <<RowEvent(Head(rows))>> \o SelectRun(Tail(rows), r)
         ELSE SelectRun(Tail(rows), r)

\* get_run: None when there is no run row; else the status, the events of the
\* run in id order, and the report if one is stored
get_run(runsT, eventsT, reportsT, r) ==
    IF runsT[r] = "none"
    THEN [found |-> FALSE, status |-> "none", transcript |-> <<>>, evaluation |-> "none"]
    ELSE [found |-> TRUE, status |-> runsT[r], transcript |-> SelectRun(eventsT, r),
          evaluation |-> reportsT[r]]

PersistTranscriptNewestFirst(eventsT, r, tr, n) ==
    eventsT \o [i \in 1..n |-> EventRow(r, tr[n + 1 - i])]

PersistAllButLast(eventsT, r, tr, n) ==
    eventsT \o [i \in 1..Min(n, Len(tr) - 1) |-> EventRow(r, tr[i])]

\* _persist_transcript: add_event for the first n events of the transcript
\* (n is its length unless a call failed before)
persist_transcript(eventsT, r, tr, n) ==
    eventsT \o [i \in 1..n |-> EventRow(r, tr[i])]

\* set_status: raises LookupError when no row matches
set_status_found(runsT, r) == runsT[r] # "none"

MarkRunFailedNoWrite(runsT, r, updated) == runsT

MarkRunFailedEveryRun(runsT, r, updated) ==
    [x \in DOMAIN runsT |-> IF updated /\ runsT[x] # "none" THEN "failed" ELSE runsT[x]]

\* _mark_run_failed: set_status(FAILED); updated is false when the call raised
\* (LookupError or a database error), which the service swallows
mark_run_failed(runsT, r, updated) ==
    IF updated THEN [runsT EXCEPT ![r] = "failed"] ELSE runsT

\* db/models/simulation.py: SimulationStatus
SimulationStatus == {"created", "running", "completed", "failed"}

CreateRunAlwaysCreated(runsT, r, status) == [runsT EXCEPT ![r] = "created"]

\* create_run: one SimulationRun row with the status handed in (the default
\* is created; init_run_node hands in running)
create_run(runsT, r, status) == [runsT EXCEPT ![r] = status]

SetStatusUpserting(runsT, r, status) ==
    [raised |-> "none", runs |-> [runsT EXCEPT ![r] = status]]

\* set_status: UPDATE ... WHERE run_id = r; LookupError when rowcount is 0,
\* else commit
set_status(runsT, r, status) ==
    IF runsT[r] = "none"
    THEN [raised |-> "LookupError", runs |-> runsT]
    ELSE [raised |-> "none", runs |-> [runsT EXCEPT ![r] = status]]

SaveEvaluationKeepsFirst(reportsT, r, report) ==
    IF reportsT[r] # "none" THEN reportsT ELSE [reportsT EXCEPT ![r] = report]

\* save_evaluation: the row keyed by run_id has its report_json replaced when
\* it exists, else a row is added
save_evaluation(reportsT, r, report) ==
    IF reportsT[r] # "none"
    THEN [reportsT EXCEPT ![r] = report]
    ELSE [reportsT EXCEPT ![r] = report]

(***************************************************************************)
(* sim/service.py: helpers.                                                *)
(***************************************************************************)
ValidateIgnoringSteps(p, stimuli, steps, run_mode) ==
    IF p = 0 THEN "ValidationError"
    ELSE IF Len(stimuli) = 0 THEN "ValidationError"
    ELSE IF run_mode \notin RunMode THEN "ValidationError"
    ELSE "ok"

\* _validate_inputs
validate_inputs(p, stimuli, steps, run_mode) ==
    IF p = 0 THEN "ValidationError"
    ELSE IF Len(stimuli) = 0 THEN "ValidationError"
    ELSE IF steps <= 0 THEN "ValidationError"
    ELSE IF run_mode \notin RunMode THEN "ValidationError"
    ELSE "ok"

RECURSIVE BuildTurnsFrom(_, _, _)
BuildTurnsFrom(stimuli, steps, i) ==
    IF i >= steps THEN <<>>
    ELSE <<stimuli[Min(i, Len(stimuli) - 1) + 1]>> \o BuildTurnsFrom(stimuli, steps, i + 1)

BuildTurnsWrapping(stimuli, steps) ==
    [i \in 1..steps |-> stimuli[((i - 1) % Len(stimuli)) + 1]]

\* start_run: for idx in range(steps): stimuli[min(idx, len(stimuli) - 1)]
build_turns(stimuli, steps) == BuildTurnsFrom(stimuli, steps, 0)

(***************************************************************************)
(* Initial state: an empty store, no call made.                            *)
(***************************************************************************)
BlankFrame == [transcript |-> <<>>, responses |-> <<>>, persona_responses |-> <<>>]
BlankValue == [transcript |-> <<>>, outputs |-> "none"]
BlankSummary == [stance |-> "yes", objections |-> <<>>]

Outcome(op, status, r, value) ==
    [op |-> op, status |-> status, run_id |-> r, value |-> value]

RunInit ==
    /\ pc = "idle"
    /\ entry = "none"
    /\ result = Outcome("none", "none", 0, BlankValue)
    /\ run_id = 0
    /\ personas = 0
    /\ mode = "single-turn"
    /\ turns = <<>>
    /\ current_turn = 0
    /\ latest_responses = <<>>
    /\ persona_states = <<>>
    /\ transcript = <<>>
    /\ outputs = "none"
    /\ idx = 0
    /\ frame = BlankFrame
    /\ runs = [r \in RunIds |-> "none"]
    /\ events = <<>>
    /\ reports = [r \in RunIds |-> "none"]
    /\ used = {}
    /\ gwOps = 0
    /\ respCalls = 0
    /\ respKinds = {}
    /\ evalRaised = FALSE
    /\ gwFailed = FALSE
    /\ marked = "no"
    /\ trace = <<>>

HeurIdle ==
    /\ hprev = initialize_persona_state
    /\ hcur = initialize_persona_state
    /\ hresp = BlankSummary
    /\ hsteps = 0

\* sim/llm/structured.py: what a conversation is made of.  A reply's content is
\* text that is no JSON, or JSON holding a document that has or lacks the
\* fields of the output model.
NoContent == [form |-> "none", complete |-> FALSE, stance |-> "yes"]
ReplyContents ==
    {[form |-> "garbage", complete |-> FALSE, stance |-> "yes"]}
    \cup [form : {"json"}, complete : BOOLEAN, stance : {"yes", "no"}]
\* llm.invoke raising instead of replying
Raised == [form |-> "raise", complete |-> FALSE, stance |-> "yes"]
PromptMessages ==
    <<[role |-> "system_prompt", error |-> "", last_content |-> NoContent],
      [role |-> "user_prompt", error |-> "", last_content |-> NoContent]>>
NoValue == [stance |-> "none", objections |-> <<>>]
NoResult == [kind |-> "none", value |-> NoValue, cause |-> ""]

ValIdle ==
    /\ vpc = "idle"
    /\ raw_response = "none"
    /\ so_call = 0
    /\ attempt = 0
    /\ tries = 0
    /\ messages = <<>>
    /\ last_error = ""
    /\ last_content = NoContent
    /\ llm_calls = <<>>
    /\ vresult = NoResult

\* a call slot in which no call is in flight
IdleSlot ==
    [pc |-> "idle", entry |-> "none", result |-> Outcome("none", "none", 0, BlankValue),
     run_id |-> 0, personas |-> 0, mode |-> "single-turn", turns |-> <<>>,
     current_turn |-> 0, latest_responses |-> <<>>, persona_states |-> <<>>,
     transcript |-> <<>>, outputs |-> "none", idx |-> 0, frame |-> BlankFrame,
     gwOps |-> 0, respCalls |-> 0, respKinds |-> {}, evalRaised |-> FALSE,
     gwFailed |-> FALSE, marked |-> "no", trace |-> <<>>, persisted |-> 0]

ConcIdle ==
    /\ persisted = 0
    /\ parked = IdleSlot

\* RunConfig.persona_modes of a run built by start_run: no override
NoOverrides == <<>>

ModeIdle ==
    /\ persona_list = <<>>
    /\ persona_modes = NoOverrides
    /\ resolved_modes = <<>>

Init == RunInit /\ HeurIdle /\ ValIdle /\ ConcIdle /\ ModeIdle

\* the call is over: its GraphState is nobody's any more
DropGraphState ==
    /\ run_id' = 0
    /\ personas' = 0
    /\ mode' = "single-turn"
    /\ turns' = <<>>
    /\ current_turn' = 0
    /\ latest_responses' = <<>>
    /\ persona_states' = <<>>
    /\ transcript' = <<>>
    /\ outputs' = "none"
    /\ idx' = 0
    /\ frame' = BlankFrame
    /\ trace' = <<>>

\* the GraphState a call starts from: nothing asked yet, empty transcript
NewCall(e, r, n, m, ts) ==
    /\ entry' = e
    /\ run_id' = r
    /\ personas' = n
    /\ mode' = m
    /\ turns' = ts
    /\ current_turn' = 0
    /\ latest_responses' = <<>>
    /\ persona_states' = <<>>
    /\ transcript' = <<>>
    /\ outputs' = "none"
    /\ idx' = 0
    /\ frame' = BlankFrame
    /\ gwOps' = 0
    /\ respCalls' = 0
    /\ respKinds' = {}
    /\ evalRaised' = FALSE
    /\ gwFailed' = FALSE
    /\ marked' = "no"
    /\ trace' = <<>>

(***************************************************************************)
(* sim/service.py: SimulationService.start_run, up to the graph's start.   *)
(* uuid4 gives an identifier nobody has used.                              *)
(***************************************************************************)
StartRunWith(p, stimuli, steps, run_mode) ==
    /\ pc = "idle"
    /\ IF validate_inputs(p, stimuli, steps, run_mode) # "ok"
       THEN /\ result' = Outcome("start_run", "ValidationError", 0, BlankValue)
            /\ pc' = "idle"
            /\ NewCall("service", 0, 0, "single-turn", <<>>)
            /\ used' = used
       ELSE \E r \in RunIds \ used :
            /\ result' = Outcome("start_run", "pending", r, BlankValue)
            /\ pc' = "init"
            /\ NewCall("service", r, p, run_mode, build_turns(stimuli, steps))
            /\ used' = used \cup {r}
    /\ UNCHANGED <<runs, events, reports, heurVars, valVars, concVars,
                   modeVars>>

StimulusLists == {[i \in 1..k |-> i] : k \in 0..MaxStimuli}

StartRun ==
    \E p \in 0..MaxPersonas, stimuli \in StimulusLists, steps \in (-1)..MaxSteps,
       run_mode \in RunModeInputs :
       StartRunWith(p, stimuli, steps, run_mode)

(***************************************************************************)
(* The compiled graph invoked on a GraphState the caller built             *)
(* (build_simulation_graph(deps).compile().ainvoke), as the graph tests do *)
(***************************************************************************)
InvokeGraphWith(r, n, t, m) ==
    /\ pc = "idle"
    /\ result' = Outcome("invoke", "pending", r, BlankValue)
    /\ NewCall("graph", r, n, m, [i \in 1..t |-> i])
    /\ used' = used \cup {r}
    /\ pc' = "init"
    /\ UNCHANGED <<runs, events, reports, heurVars, valVars, concVars,
                   modeVars>>

InvokeGraph ==
    \E r \in RunIds, n \in 0..MaxPersonas, t \in 0..MaxSteps, m \in RunMode :
       InvokeGraphWith(r, n, t, m)

(***************************************************************************)
(* init_run_node.  create_run fails on a run id that has a row already, or *)
(* when the database fails before or after its commit.                     *)
(***************************************************************************)
InitRunNode ==
    /\ pc = "init"
    /\ trace' = Append(trace, "init")
    /\ gwOps' = gwOps + 1
    /\ \E db \in {"ok", "fails_before_commit", "fails_after_commit"} :
          LET merged == merge_persona_states(persona_states, personas)
              started == attach_event(transcript, 0, "system", "Simulation started", 0, 0)
              duplicate == runs[run_id] # "none"
              committed == ~duplicate /\ db # "fails_before_commit"
          IN  /\ runs' = IF committed THEN create_run(runs, run_id, "running") ELSE runs
              /\ IF committed /\ db = "ok"
                 THEN /\ persona_states' = merged
                      /\ transcript' = started
                      /\ pc' = graph_edge("init")
                      /\ gwFailed' = gwFailed
                 ELSE /\ pc' = "raised"
                      /\ gwFailed' = TRUE
                      /\ UNCHANGED <<persona_states, transcript>>
    /\ UNCHANGED <<entry, result, run_id, personas, mode, turns, current_turn,
                   latest_responses, outputs, idx, frame, events, reports, used,
                   respCalls, respKinds, evalRaised, marked, heurVars, valVars, concVars,
                   modeVars>>

(***************************************************************************)
(* persona_response_node: its early returns and the state it returns.      *)
(***************************************************************************)
\* GraphState, by the fields the nodes read and return: current_turn and
\* latest_responses, simulation.persona_states, simulation.transcript and
\* simulation.personas, config.mode and config.turns
GraphStateFields ==
    [current_turn |-> current_turn, persona_states |-> persona_states,
     transcript |-> transcript, latest_responses |-> latest_responses,
     personas |-> personas, mode |-> mode, turns |-> turns]

\* the GraphState a node returns becomes the state of the run
ReturnGraphState(state) ==
    /\ current_turn' = state.current_turn
    /\ persona_states' = state.persona_states
    /\ transcript' = state.transcript
    /\ latest_responses' = state.latest_responses
    /\ personas' = state.personas
    /\ mode' = state.mode
    /\ turns' = state.turns

NoopOnlyPastTurnList(cur, m, ts) == cur >= Len(ts)

\* persona_response_node returns its input when current_turn >= max_turns,
\* or when there is no turn input (the turn list is empty)
respond_noop(cur, m, ts) ==
    LET turn_count == IF Len(ts) = 0 THEN 1 ELSE Len(ts)
        max_turns == IF m = "single-turn" THEN 1 ELSE turn_count
    IN  cur >= max_turns \/ Len(ts) = 0

RespondReturnsAdvancingTurn(state, updated_transcript, persona_responses) ==
    [state EXCEPT !.transcript = updated_transcript,
                  !.latest_responses = persona_responses,
                  !.current_turn = state.current_turn + 1]

\* persona_response_node's return: the simulation copied with the updated
\* transcript, the state copied with that simulation and latest_responses
respond_returns(state, updated_transcript, persona_responses) ==
    [state EXCEPT !.transcript = updated_transcript,
                  !.latest_responses = persona_responses]

(***************************************************************************)
(* persona_response_node, up to its loop over the personas: the no-op      *)
(* returns, then the question event.  With no persona the loop is empty    *)
(* and the node returns at once.                                           *)
(***************************************************************************)
PersonaResponseNode ==
    /\ pc = "respond"
    /\ trace' = Append(trace, "respond")
    /\ LET asked == attach_event(transcript, 0, "question", "Stimulus",
                                 turns[current_turn + 1], current_turn + 1)
       IN  IF respond_noop(current_turn, mode, turns)
           THEN /\ pc' = graph_edge("respond")
                /\ ReturnGraphState(GraphStateFields)
                /\ UNCHANGED <<idx, frame>>
           ELSE IF personas = 0
           THEN /\ pc' = graph_edge("respond")
                /\ ReturnGraphState(respond_returns(GraphStateFields, asked, <<>>))
                /\ UNCHANGED <<idx, frame>>
           ELSE /\ pc' = "asking"
                /\ idx' = 1
                /\ frame' = [transcript |-> asked, responses |-> <<>>,
                             persona_responses |-> <<>>]
                /\ UNCHANGED <<current_turn, persona_states, transcript,
                               latest_responses, personas, mode, turns>>
    /\ UNCHANGED <<entry, result, run_id, outputs, runs,
                   events, reports, used, gwOps, respCalls, respKinds, evalRaised,
                   gwFailed, marked, heurVars, valVars, concVars,
                   modeVars>>

(***************************************************************************)
(* persona_response_node, one round of its loop: the responder is called   *)
(* for persona idx, its reply parsed and summarised, the answer event and  *)
(* the PersonaResponse built.  After the last persona the node returns the *)
(* new state.  Any failure leaves the state as it was before the node.     *)
(***************************************************************************)
AskPersona ==
    /\ pc = "asking"
    /\ respCalls' = respCalls + 1
    /\ \E reply \in Replies :
          LET parsed == parse_persona_response(reply)
              payload == parsed.payload
              summary == to_summary_from_payload(payload)
              response_event == event_for_response(idx, payload, summary, current_turn + 1)
              persona_response ==
                  [persona_id |-> idx, content |-> "short_answer",
                   persona_mode |-> resolve_persona_mode(idx, [i \in 1..personas |-> i],
                                                         NoOverrides),
                   summary |-> summary,
                   stance |-> summary.stance,
                   objection_severity |-> highest_severity(summary)]
              responses == Append(frame.responses, response_event)
              persona_responses == Append(frame.persona_responses, persona_response)
          IN  /\ respKinds' = respKinds \cup {reply.kind}
              /\ IF \/ reply.kind = "raise"
                    \/ ~parsed.ok
                    \/ ExtraForbidden(PersonaResponseKwargs, PersonaResponseFields)
                 THEN /\ pc' = "raised"
                      /\ UNCHANGED <<current_turn, persona_states, transcript,
                                     latest_responses, personas, mode, turns, idx, frame>>
                 ELSE IF idx < personas
                 THEN /\ pc' = "asking"
                      /\ idx' = idx + 1
                      /\ frame' = [frame EXCEPT !.responses = responses,
                                                !.persona_responses = persona_responses]
                      /\ UNCHANGED <<current_turn, persona_states, transcript,
                                     latest_responses, personas, mode, turns>>
                 ELSE /\ pc' = graph_edge("respond")
                      /\ ReturnGraphState(respond_returns(GraphStateFields,
                                                          frame.transcript \o responses,
                                                          persona_responses))
                      /\ UNCHANGED <<idx, frame>>
    /\ UNCHANGED <<entry, result, run_id, outputs, runs,
                   events, reports, used, gwOps, evalRaised, gwFailed, trace, marked,
                   heurVars, valVars, concVars,
                   modeVars>>

(***************************************************************************)
(* update_state_node, then the conditional edge _route_after_update.       *)
(***************************************************************************)
\* update_state_node reads response.summary and response.persona_mode of each
\* of latest_responses; a PersonaResponse (state.py 52-63) has neither
\* attribute, so the read raises AttributeError
update_raises(responses) ==
    \E i \in 1..Len(responses) :
       ~("summary" \in DOMAIN responses[i] /\ "persona_mode" \in DOMAIN responses[i])

UpdateReturnsResettingMode(state, new_persona_states, new_turn) ==
    [state EXCEPT !.persona_states = new_persona_states,
                  !.current_turn = new_turn,
                  !.mode = "single-turn"]

\* update_state_node's return: the simulation copied with the new
\* persona_states, the state copied with that simulation and current_turn
update_returns(state, new_persona_states, new_turn) ==
    [state EXCEPT !.persona_states = new_persona_states,
                  !.current_turn = new_turn]

UpdateStateNode ==
    /\ pc = "update"
    /\ trace' = Append(trace, "update")
    /\ IF update_raises(latest_responses)
       THEN /\ pc' = "raised"
            /\ UNCHANGED <<current_turn, persona_states, transcript, latest_responses,
                           personas, mode, turns>>
       ELSE LET returned ==
                    update_returns(GraphStateFields,
                                   ApplyResponses(merge_persona_states(persona_states,
                                                                       personas),
                                                  latest_responses),
                                   next_turn(current_turn))
            IN  /\ ReturnGraphState(returned)
                /\ pc' = conditional_edge(route_after_update(returned.current_turn,
                                                             returned.mode,
                                                             returned.turns))
    /\ UNCHANGED <<entry, result, run_id,
                   outputs, idx, frame, runs, events, reports, used, gwOps,
                   respCalls, respKinds, evalRaised, gwFailed, marked, heurVars, valVars, concVars,
                   modeVars>>

(***************************************************************************)
(* evaluator_node: the evaluation responder returns a report or raises.    *)
(***************************************************************************)
EvaluatorNode ==
    /\ pc = "evaluate"
    /\ trace' = Append(trace, "evaluate")
    /\ \E report \in ReportValues \cup {"raise"} :
          IF report = "raise"
          THEN /\ pc' = "raised"
               /\ evalRaised' = TRUE
               /\ UNCHANGED <<transcript, outputs>>
          ELSE /\ pc' = graph_edge("evaluate")
               /\ evalRaised' = evalRaised
               /\ outputs' = report
               /\ transcript' =
                      Append(transcript,
                             TranscriptEvent("evaluation", 0, "Evaluation completed", 0,
                                             [NoneMeta EXCEPT !.none = FALSE,
                                                              !.report = report]))
    /\ UNCHANGED <<entry, result, run_id, personas, mode, turns, current_turn,
                   latest_responses, persona_states, idx, frame, runs, events, reports,
                   used, gwOps, respCalls, respKinds, gwFailed, marked, heurVars, valVars, concVars,
                   modeVars>>

(***************************************************************************)
(* persist_node: add_event per transcript event, save_evaluation when      *)
(* there is a report, then set_status(COMPLETED).  failAt = 0: every call  *)
(* succeeds; failAt = j: the j-th call raises before its commit, the       *)
(* earlier ones stay committed.                                            *)
(***************************************************************************)
PersistNode ==
    /\ pc = "persist"
    /\ trace' = Append(trace, "persist")
    /\ LET n == Len(transcript)
           calls == n + (IF outputs # "none" THEN 1 ELSE 0) + 1
       IN  \E failAt \in 0..calls :
              LET written == IF failAt = 0 THEN n ELSE Min(failAt - 1, n)
                  saved == outputs # "none" /\ (failAt = 0 \/ failAt > n + 1)
                  found == set_status_found(runs, run_id)
              IN  /\ events' = persist_transcript(events, run_id, transcript, written)
                  /\ reports' = IF saved THEN [reports EXCEPT ![run_id] = outputs]
                                ELSE reports
                  /\ runs' = IF failAt = 0 /\ found
                             THEN [runs EXCEPT ![run_id] = "completed"] ELSE runs
                  /\ pc' = IF failAt = 0 /\ found THEN graph_edge("persist") ELSE "raised"
                  /\ gwOps' = gwOps + (IF failAt = 0 THEN calls ELSE failAt)
                  /\ gwFailed' = (gwFailed \/ failAt # 0 \/ ~found)
    /\ UNCHANGED <<entry, result, run_id, personas, mode, turns, current_turn,
                   latest_responses, persona_states, transcript, outputs, idx, frame,
                   used, respCalls, respKinds, evalRaised, marked, heurVars, valVars, concVars,
                   modeVars>>

(***************************************************************************)
(* The graph reached END: start_run validates the result and returns the   *)
(* run id; a direct caller gets the final GraphState.                      *)
(***************************************************************************)
CallReturns ==
    /\ pc = "done"
    /\ pc' = "idle"
    /\ result' = Outcome(result.op, "ok", run_id, BlankValue)
    /\ DropGraphState
    /\ UNCHANGED <<entry, runs, events, reports, used, gwOps, respCalls, respKinds, evalRaised, gwFailed, marked, heurVars, valVars, concVars,
                   modeVars>>

StartRunRaisesMarkFailure(updated) ==
    IF updated THEN "RunFailedError" ELSE "LookupError"

\* start_run's except clause after _mark_run_failed returned: the helper
\* returns None whether or not the update went through, then
\* raise RunFailedError(...) from exc
start_run_raises(updated) == "RunFailedError"

(***************************************************************************)
(* start_run's except clause: _mark_run_failed (set_status(FAILED), any    *)
(* failure of which is swallowed), then RunFailedError.                    *)
(***************************************************************************)
StartRunFails ==
    /\ pc = "raised"
    /\ entry = "service"
    /\ pc' = "idle"
    /\ gwOps' = gwOps + 1
    /\ \E db \in {"ok", "fails"} :
          LET updated == db = "ok" /\ set_status_found(runs, run_id)
          IN  /\ runs' = mark_run_failed(runs, run_id, updated)
              /\ gwFailed' = (gwFailed \/ ~updated)
              /\ marked' = IF updated THEN "ok" ELSE "swallowed"
              /\ result' = Outcome("start_run", start_run_raises(updated), run_id, BlankValue)
    /\ DropGraphState
    /\ UNCHANGED <<entry, events, reports, used, respCalls, respKinds, evalRaised, heurVars, valVars, concVars,
                   modeVars>>

(***************************************************************************)
(* A node raised under a direct caller: the exception reaches the caller.  *)
(***************************************************************************)
InvokeGraphFails ==
    /\ pc = "raised"
    /\ entry = "graph"
    /\ pc' = "idle"
    /\ result' = Outcome("invoke", "error", run_id, BlankValue)
    /\ DropGraphState
    /\ UNCHANGED <<entry, runs, events, reports, used, gwOps, respCalls, respKinds, evalRaised, gwFailed, marked, heurVars, valVars, concVars,
                   modeVars>>

(***************************************************************************)
(* sim/service.py: SimulationService.get_run.                              *)
(***************************************************************************)
ServiceGetRunNeverFails(dto, r) ==
    Outcome("get_run", "ok", r, [transcript |-> dto.transcript, outputs |-> dto.evaluation])

\* NotFoundError when the repository gives None, else to_simulation_state()
service_get_run(dto, r) ==
    IF ~dto.found
    THEN Outcome("get_run", "NotFoundError", r, BlankValue)
    ELSE Outcome("get_run", "ok", r,
                 [transcript |-> dto.transcript, outputs |-> dto.evaluation])

GetRun ==
    /\ pc = "idle"
    /\ \E r \in RunIds :
          result' = service_get_run(get_run(runs, events, reports, r), r)
    /\ UNCHANGED <<pc, entry, run_id, personas, mode, turns, current_turn,
                   latest_responses, persona_states, transcript, outputs, idx, frame,
                   runs, events, reports, used, gwOps, respCalls, respKinds, evalRaised,
                   gwFailed, trace, marked, heurVars, valVars, concVars,
                   modeVars>>

Next ==
    \/ StartRun
    \/ InvokeGraph
    \/ InitRunNode
    \/ PersonaResponseNode
    \/ AskPersona
    \/ UpdateStateNode
    \/ EvaluatorNode
    \/ PersistNode
    \/ CallReturns
    \/ StartRunFails
    \/ InvokeGraphFails
    \/ GetRun

Spec == Init /\ [][Next]_vars

(***************************************************************************)
(* The trust heuristic on its own: apply_persona_heuristics applied, up to *)
(* MaxHeurSteps times, from TrustStates on and inside the bounds of [0,1], *)
(* with any stance, any list of objections and any persona mode.           *)
(***************************************************************************)
HeurStartStates ==
    [trust_score : {0, 500, One}, fatigue_score : {0, 100, One},
     risk_tolerance : {0, 700, 900, One}]

PersonaModes == {"economic_buyer", "daily_user", "anti_persona"}

HeurInit ==
    /\ RunInit
    /\ ValIdle
    /\ ConcIdle
    /\ ModeIdle
    /\ hcur \in HeurStartStates
    /\ hprev = hcur
    /\ hresp = BlankSummary
    /\ hsteps = 0

ApplyHeuristics ==
    /\ hsteps < MaxHeurSteps
    /\ \E stance \in WillDecision, objections \in ObjectionLists, m \in PersonaModes :
          LET response == [stance |-> stance, objections |-> objections]
          IN  /\ hresp' = response
              /\ hcur' = apply_persona_heuristics(hcur, response, m)
    /\ hprev' = hcur
    /\ hsteps' = hsteps + 1
    /\ UNCHANGED <<runVars, valVars, concVars, modeVars>>

HeurNext == ApplyHeuristics

HeurSpec == HeurInit /\ [][HeurNext]_vars

(***************************************************************************)
(* The same chain of updates in the interpreter's floats, from the default *)
(* TrustState of _initialize_persona_state (0.5, 0.0, 0.5) and from the    *)
(* fatigue and risk_tolerance at the ends of their range.                  *)
(***************************************************************************)
FloatStartStates ==
    [trust_score : {F_0_5}, fatigue_score : {F_0_0, F_1_0},
     risk_tolerance : {F_0_5, F_0_0}]

FloatInit ==
    /\ RunInit
    /\ ValIdle
    /\ ConcIdle
    /\ ModeIdle
    /\ hcur \in FloatStartStates
    /\ hprev = hcur
    /\ hresp = BlankSummary
    /\ hsteps = 0

ApplyHeuristicsF64 ==
    /\ hsteps < MaxFloatSteps
    /\ \E stance \in WillDecision, objections \in ObjectionLists, m \in PersonaModes :
          LET response == [stance |-> stance, objections |-> objections]
          IN  /\ hresp' = response
              /\ hcur' = apply_persona_heuristics_f64(hcur, response, m)
    /\ hprev' = hcur
    /\ hsteps' = hsteps + 1
    /\ UNCHANGED <<runVars, valVars, concVars, modeVars>>

FloatNext == ApplyHeuristicsF64

FloatSpec == FloatInit /\ [][FloatNext]_vars

(***************************************************************************)
(* One invocation of the compiled graph from any GraphState a caller may    *)
(* build: any mode, any turn list, any current_turn >= 0 (GraphState        *)
(* requires ge=0), persona states already present for any of the persona   *)
(* ids, latest_responses empty or left over from a turn.  A node that has been entered returns or raises, which is the weak *)
(* fairness of the steps.                                                  *)
(***************************************************************************)
\* TrustStates a caller may have put into SimulationState.persona_states
SeedTrustStates ==
    {[trust_score |-> 800, fatigue_score |-> 100, risk_tolerance |-> 700],
     [trust_score |-> 200, fatigue_score |-> 400, risk_tolerance |-> 300]}

InitialPersonaStates == UNION {[D -> SeedTrustStates] : D \in SUBSET (1..MaxPersonas)}

\* latest_responses a caller may hand in: none, or a PersonaResponse left
\* from an earlier turn (state.py 52-63: persona_id, content, stance,
\* objection_severity)
InitialLatestResponses ==
    {<<>>,
     <<[persona_id |-> 1, content |-> "short_answer", stance |-> "no",
        objection_severity |-> "high"]>>}

TermInit ==
    /\ pc = "init"
    /\ entry = "graph"
    /\ run_id \in RunIds
    /\ result = Outcome("invoke", "pending", run_id, BlankValue)
    /\ personas \in 0..MaxPersonas
    /\ mode \in RunMode
    /\ turns \in {[i \in 1..t |-> i] : t \in 0..MaxSteps}
    /\ current_turn \in 0..MaxInitialTurn
    /\ latest_responses \in InitialLatestResponses
    /\ persona_states \in InitialPersonaStates
    /\ transcript = <<>>
    /\ outputs = "none"
    /\ idx = 0
    /\ frame = BlankFrame
    /\ runs = [r \in RunIds |-> "none"]
    /\ events = <<>>
    /\ reports = [r \in RunIds |-> "none"]
    /\ used = {run_id}
    /\ gwOps = 0
    /\ respCalls = 0
    /\ respKinds = {}
    /\ evalRaised = FALSE
    /\ gwFailed = FALSE
    /\ marked = "no"
    /\ trace = <<>>
    /\ HeurIdle
    /\ ValIdle
    /\ ConcIdle
    /\ ModeIdle

TermNext ==
    \/ InitRunNode
    \/ PersonaResponseNode
    \/ AskPersona
    \/ UpdateStateNode
    \/ EvaluatorNode
    \/ PersistNode

TermSpec == TermInit /\ [][TermNext]_vars /\ WF_vars(TermNext)

(***************************************************************************)
(* Two calls in flight on one event loop.  Each call has its own           *)
(* GraphState; the tables are shared.  The variables of the run hold the   *)
(* call that is executing, parked the one suspended at an await; Switch    *)
(* hands the loop to the other.  persist_node is taken one gateway call at *)
(* a time, each committing on its own, so the rows of two runs interleave. *)
(***************************************************************************)
\* the call that is executing, as a slot
Executing ==
    [pc |-> pc, entry |-> entry, result |-> result, run_id |-> run_id,
     personas |-> personas, mode |-> mode, turns |-> turns,
     current_turn |-> current_turn, latest_responses |-> latest_responses,
     persona_states |-> persona_states, transcript |-> transcript,
     outputs |-> outputs, idx |-> idx, frame |-> frame, gwOps |-> gwOps,
     respCalls |-> respCalls, respKinds |-> respKinds, evalRaised |-> evalRaised,
     gwFailed |-> gwFailed, marked |-> marked, trace |-> trace,
     persisted |-> persisted]

Switch ==
    /\ parked' = Executing
    /\ pc' = parked.pc
    /\ entry' = parked.entry
    /\ result' = parked.result
    /\ run_id' = parked.run_id
    /\ personas' = parked.personas
    /\ mode' = parked.mode
    /\ turns' = parked.turns
    /\ current_turn' = parked.current_turn
    /\ latest_responses' = parked.latest_responses
    /\ persona_states' = parked.persona_states
    /\ transcript' = parked.transcript
    /\ outputs' = parked.outputs
    /\ idx' = parked.idx
    /\ frame' = parked.frame
    /\ gwOps' = parked.gwOps
    /\ respCalls' = parked.respCalls
    /\ respKinds' = parked.respKinds
    /\ evalRaised' = parked.evalRaised
    /\ gwFailed' = parked.gwFailed
    /\ marked' = parked.marked
    /\ trace' = parked.trace
    /\ persisted' = parked.persisted
    /\ UNCHANGED <<runs, events, reports, used, heurVars, valVars, modeVars>>

\* add_event: one row, committed
add_event(eventsT, r, event) == Append(eventsT, EventRow(r, event))

\* persist_node, one gateway call (persisted counts those made): add_event
\* for the next transcript event,
\* then save_evaluation when there is a report, then set_status(COMPLETED);
\* a call that raises ends the node
PersistStep ==
    /\ pc = "persist"
    /\ trace' = IF persisted = 0 THEN Append(trace, "persist") ELSE trace
    /\ gwOps' = gwOps + 1
    /\ LET n == Len(transcript)
           saving == persisted = n /\ outputs # "none"
       IN  \E db \in {"ok", "fails"} :
              IF db = "fails"
              THEN /\ pc' = "raised"
                   /\ gwFailed' = TRUE
                   /\ persisted' = 0
                   /\ UNCHANGED <<runs, events, reports>>
              ELSE IF persisted < n
              THEN /\ events' = add_event(events, run_id, transcript[persisted + 1])
                   /\ persisted' = persisted + 1
                   /\ UNCHANGED <<pc, gwFailed, runs, reports>>
              ELSE IF saving
              THEN /\ reports' = [reports EXCEPT ![run_id] = outputs]
                   /\ persisted' = persisted + 1
                   /\ UNCHANGED <<pc, gwFailed, runs, events>>
              ELSE IF set_status_found(runs, run_id)
              THEN /\ runs' = [runs EXCEPT ![run_id] = "completed"]
                   /\ pc' = graph_edge("persist")
                   /\ persisted' = 0
                   /\ UNCHANGED <<gwFailed, events, reports>>
              ELSE /\ pc' = "raised"
                   /\ gwFailed' = TRUE
                   /\ persisted' = 0
                   /\ UNCHANGED <<runs, events, reports>>
    /\ UNCHANGED <<entry, result, run_id, personas, mode, turns, current_turn,
                   latest_responses, persona_states, transcript, outputs, idx, frame,
                   used, respCalls, respKinds, evalRaised, marked, parked, heurVars,
                   valVars, modeVars>>

\* a caller starts a run while the other slot may be busy: start_run with
\* valid inputs, or the graph invoked on a fresh run id
ConcStartRun ==
    \E stimuli \in StimulusLists, steps \in 1..MaxConcTurns, run_mode \in RunMode :
       Len(stimuli) >= 1 /\ StartRunWith(1, stimuli, steps, run_mode)

ConcInvokeGraph ==
    \E r \in RunIds \ used, n \in 0..1, t \in 1..MaxConcTurns, m \in RunMode :
       InvokeGraphWith(r, n, t, m)

ConcNext ==
    \/ ConcStartRun
    \/ ConcInvokeGraph
    \/ InitRunNode
    \/ PersonaResponseNode
    \/ AskPersona
    \/ UpdateStateNode
    \/ EvaluatorNode
    \/ PersistStep
    \/ CallReturns
    \/ StartRunFails
    \/ InvokeGraphFails
    \/ Switch

ConcSpec == Init /\ [][ConcNext]_vars

(***************************************************************************)
(* The structured output validator on its own (sim/llm/structured.py) and  *)
(* _parse_persona_response (sim/graph/nodes.py), one llm.invoke at a time. *)
(* The model behind llm.invoke may raise or reply with any content.        *)
(***************************************************************************)
ParseAndValidateStrict(content) ==
    IF content.form # "json"
    THEN [ok |-> FALSE, value |-> NoValue, error |-> "JSONDecodeError"]
    ELSE IF ~content.complete \/ content.stance = "no"
    THEN [ok |-> FALSE, value |-> NoValue, error |-> "ValidationError"]
    ELSE [ok |-> TRUE, value |-> [stance |-> content.stance, objections |-> <<>>],
          error |-> ""]

\* _parse_and_validate: json.loads, then output_model.model_validate
parse_and_validate(content) ==
    IF content.form # "json"
    THEN [ok |-> FALSE, value |-> NoValue, error |-> "JSONDecodeError"]
    ELSE IF ~content.complete
    THEN [ok |-> FALSE, value |-> NoValue, error |-> "ValidationError"]
    ELSE [ok |-> TRUE, value |-> [stance |-> content.stance, objections |-> <<>>],
          error |-> ""]

NextMessagesAccumulating(original_messages, validation_error, content) ==
    Append(messages,
           [role |-> "guidance", error |-> validation_error, last_content |-> content])

\* _next_messages: [*original_messages, SystemMessage(guidance)], the guidance
\* quoting the validation error and the last response content
next_messages(original_messages, validation_error, content) ==
    Append(original_messages,
           [role |-> "guidance", error |-> validation_error, last_content |-> content])

RetryStopsAtOnce(attempt_number) == TRUE

\* _build_retryer: stop_after_attempt(_VALIDATION_ATTEMPTS), reraise=True;
\* attempt_number counts the llm.invoke llm_calls of this retryer call
retry_stops(attempt_number) == attempt_number >= VALIDATION_ATTEMPTS

AttemptsLeftOneMore(done) == done < VALIDATION_ATTEMPTS + 1

\* for _ in range(_VALIDATION_ATTEMPTS): done is the number of rounds finished
attempts_left(done) == done < VALIDATION_ATTEMPTS

\* invoke_structured's locals when it is entered
enter_invoke_structured(prompt_messages) ==
    [attempt |-> 0, tries |-> 0, messages |-> prompt_messages, last_error |-> "",
     last_content |-> NoContent]

\* invoke_structured, one llm.invoke of its loop with the given outcome
\* (Raised or a reply content): status "continue" (another llm.invoke
\* follows), "return" (value) or "raise" (StructuredOutputError from cause)
invoke_structured(st, prompt_messages, outcome) ==
    LET go(status, value, cause, next) ==
            [status |-> status, value |-> value, cause |-> cause, st |-> next]
    IN  IF outcome = Raised
        THEN IF retry_stops(st.tries + 1)
             THEN go("raise", NoValue, "transport", st)
             ELSE go("continue", NoValue, "", [st EXCEPT !.tries = st.tries + 1])
        ELSE LET v == parse_and_validate(outcome)
                 failed == [attempt |-> st.attempt + 1, tries |-> 0,
                            messages |-> next_messages(prompt_messages, v.error, outcome),
                            last_error |-> v.error, last_content |-> outcome]
             IN  IF v.ok
                 THEN go("return", v.value, "", [st EXCEPT !.tries = 0,
                                                           !.last_content = outcome])
                 ELSE IF attempts_left(st.attempt + 1)
                      THEN go("continue", NoValue, "", failed)
                      ELSE go("raise", NoValue, v.error, failed)

\* the kinds of raw reply _parse_persona_response tells apart
RawKinds == {"typed", "json_valid", "empty", "text", "json_invalid"}

ValidValues == {[stance |-> st, objections |-> <<>>] : st \in {"yes", "no"}}

SetLocals(st) ==
    /\ attempt' = st.attempt
    /\ tries' = st.tries
    /\ messages' = st.messages
    /\ last_error' = st.last_error
    /\ last_content' = st.last_content

\* _parse_persona_response up to its first invoke_structured call or its return
ParsePersonaResponse ==
    /\ vpc = "idle"
    /\ \E raw \in RawKinds, value \in ValidValues :
          /\ raw_response' = raw
          /\ IF raw \in {"typed", "json_valid"}
             THEN /\ vpc' = "returned"
                  /\ vresult' = [kind |-> "value", value |-> value, cause |-> ""]
                  /\ so_call' = 0
                  /\ UNCHANGED <<attempt, tries, messages, last_error, last_content>>
             ELSE /\ vpc' = "invoke"
                  /\ vresult' = vresult
                  /\ so_call' = 1
                  /\ SetLocals(enter_invoke_structured(PromptMessages))
    /\ UNCHANGED <<llm_calls, runVars, heurVars, concVars, modeVars>>

\* invoke_structured called by itself, as the tests of the validator do
InvokeStructured ==
    /\ vpc = "idle"
    /\ vpc' = "invoke"
    /\ raw_response' = "direct"
    /\ so_call' = 1
    /\ SetLocals(enter_invoke_structured(PromptMessages))
    /\ UNCHANGED <<vresult, llm_calls, runVars, heurVars, concVars, modeVars>>

TransportFailures == Cardinality({i \in 1..Len(llm_calls) : llm_calls[i].outcome = Raised})

\* one llm.invoke.  A StructuredOutputError of the call _parse_persona_response
\* makes for JSON-looking text is swallowed there, and invoke_structured is
\* called again.
LlmInvoke ==
    /\ vpc = "invoke"
    /\ \E outcome \in {Raised} \cup ReplyContents :
          /\ outcome = Raised => TransportFailures < MaxTransportFailures
          /\ LET st == [attempt |-> attempt, tries |-> tries, messages |-> messages,
                        last_error |-> last_error, last_content |-> last_content]
                 r == invoke_structured(st, PromptMessages, outcome)
                 swallowed == raw_response = "json_invalid" /\ so_call = 1
             IN  /\ llm_calls' = Append(llm_calls, [so_call |-> so_call, attempt |-> attempt,
                                            sent |-> messages, outcome |-> outcome])
                 /\ IF r.status = "continue"
                    THEN /\ SetLocals(r.st)
                         /\ UNCHANGED <<vpc, so_call, vresult>>
                    ELSE IF r.status = "return"
                    THEN /\ SetLocals(r.st)
                         /\ vpc' = "returned"
                         /\ vresult' = [kind |-> "value", value |-> r.value, cause |-> ""]
                         /\ so_call' = so_call
                    ELSE IF swallowed
                    THEN /\ SetLocals(enter_invoke_structured(PromptMessages))
                         /\ so_call' = so_call + 1
                         /\ UNCHANGED <<vpc, vresult>>
                    ELSE /\ SetLocals(r.st)
                         /\ vpc' = "raised"
                         /\ vresult' = [kind |-> "StructuredOutputError",
                                        value |-> NoValue, cause |-> r.cause]
                         /\ so_call' = so_call
    /\ UNCHANGED <<raw_response, runVars, heurVars, concVars, modeVars>>

ValInit == RunInit /\ HeurIdle /\ ValIdle /\ ConcIdle /\ ModeIdle

ValNext ==
    \/ ParsePersonaResponse
    \/ InvokeStructured
    \/ LlmInvoke

ValSpec == ValInit /\ [][ValNext]_vars

(***************************************************************************)
(* The persona mode on its own: _resolve_persona_mode as the loop of        *)
(* persona_response_node calls it, turn after turn, for every persona of    *)
(* the list, with any list of personas (each with its own id, in any order) *)
(* and any map of overrides, whose keys may or may not be in the list.      *)
(***************************************************************************)
PersonaIds == 1..MaxModePersonas

PersonaLists ==
    {q \in SeqsUpTo(PersonaIds, MaxModePersonas) :
        \A i, j \in 1..Len(q) : i # j => q[i] # q[j]}

\* the values of RunConfig.persona_modes: any string, a fallback name or not
OverrideModes == {"anti_persona", "custom_mode"}

ModeMaps == UNION {[D -> OverrideModes] : D \in SUBSET PersonaIds}

ModeInit ==
    /\ RunInit
    /\ HeurIdle
    /\ ValIdle
    /\ ConcIdle
    /\ persona_list \in PersonaLists
    /\ persona_modes \in ModeMaps
    /\ resolved_modes = <<>>

\* one turn of persona_response_node's loop, by the modes it resolves
ResolveModes ==
    /\ Len(resolved_modes) < MaxModeTurns
    /\ resolved_modes' =
           Append(resolved_modes,
                  [i \in 1..Len(persona_list) |->
                      resolve_persona_mode(persona_list[i], persona_list, persona_modes)])
    /\ UNCHANGED <<persona_list, persona_modes, runVars, heurVars, valVars, concVars>>

ModeNext == ResolveModes

ModeSpec == ModeInit /\ [][ModeNext]_vars

(***************************************************************************)
(* The persistence gateway called directly on a working database, as       *)
(* tests/test_sim_repo.py does: create_run, add_event, set_status,          *)
(* save_evaluation and get_run in any order, for any run id, known or not.  *)
(* A row that references a run without a row is rejected when the database  *)
(* enforces the foreign key and stored when it does not.                    *)
(***************************************************************************)
GwEvents ==
    {TranscriptEvent("system", 0, "Simulation started", 0, NoneMeta),
     TranscriptEvent("question", 0, 1, 0, StepMeta(1))}

GwIdle ==
    /\ pc = "idle"
    /\ UNCHANGED <<pc, entry, run_id, personas, mode, turns, current_turn,
                   latest_responses, persona_states, transcript, outputs, idx, frame,
                   used, gwOps, respCalls, respKinds, evalRaised, gwFailed, marked,
                   trace, heurVars, valVars, concVars, modeVars>>

GwCreateRunWith(r, status) ==
    /\ GwIdle
    /\ IF runs[r] # "none"
       THEN /\ result' = Outcome("create_run", "IntegrityError", r, BlankValue)
            /\ UNCHANGED runs
       ELSE /\ runs' = create_run(runs, r, status)
            /\ result' = Outcome("create_run", "ok", r,
                                 [transcript |-> SelectRun(events, r),
                                  outputs |-> reports[r]])
    /\ UNCHANGED <<events, reports>>

GwCreateRun == \E r \in RunIds, status \in {"created", "running"} : GwCreateRunWith(r, status)

GwAddEventWith(r, event, enforced) ==
    /\ GwIdle
    /\ Len(events) < MaxGwEvents
    /\ IF runs[r] = "none" /\ enforced
       THEN /\ result' = Outcome("add_event", "IntegrityError", r, BlankValue)
            /\ UNCHANGED events
       ELSE /\ events' = add_event(events, r, event)
            /\ result' = Outcome("add_event", "ok", r, BlankValue)
    /\ UNCHANGED <<runs, reports>>

GwAddEvent ==
    \E r \in RunIds, event \in GwEvents, enforced \in BOOLEAN : GwAddEventWith(r, event, enforced)

GwSetStatusWith(r, status) ==
    /\ GwIdle
    /\ LET done == set_status(runs, r, status)
       IN  /\ runs' = done.runs
           /\ result' = Outcome("set_status",
                                IF done.raised = "none" THEN "ok" ELSE done.raised,
                                r, BlankValue)
    /\ UNCHANGED <<events, reports>>

GwSetStatus == \E r \in RunIds, status \in SimulationStatus : GwSetStatusWith(r, status)

GwSaveEvaluationWith(r, report, enforced) ==
    /\ GwIdle
    /\ IF runs[r] = "none" /\ reports[r] = "none" /\ enforced
       THEN /\ result' = Outcome("save_evaluation", "IntegrityError", r, BlankValue)
            /\ UNCHANGED reports
       ELSE /\ reports' = save_evaluation(reports, r, report)
            /\ result' = Outcome("save_evaluation", "ok", r,
                                 [transcript |-> <<>>, outputs |-> report])
    /\ UNCHANGED <<runs, events>>

GwSaveEvaluation ==
    \E r \in RunIds, report \in ReportValues, enforced \in BOOLEAN :
       GwSaveEvaluationWith(r, report, enforced)

GwGetRunWith(r) ==
    /\ GwIdle
    /\ LET dto == get_run(runs, events, reports, r)
       IN  result' = Outcome("get_run", IF dto.found THEN "ok" ELSE "None", r,
                             [transcript |-> dto.transcript, outputs |-> dto.evaluation])
    /\ UNCHANGED <<runs, events, reports>>

GwGetRun == \E r \in RunIds : GwGetRunWith(r)

GwInit == RunInit /\ HeurIdle /\ ValIdle /\ ConcIdle /\ ModeIdle

GwNext ==
    \/ GwCreateRun
    \/ GwAddEvent
    \/ GwSetStatus
    \/ GwSaveEvaluation
    \/ GwGetRun

GwSpec == GwInit /\ [][GwNext]_vars

(***************************************************************************)
(* Properties.                                                             *)
(***************************************************************************)
QuestionCount(tr) == Cardinality({i \in 1..Len(tr) : tr[i].event_type = "question"})

\* C1: a run that reaches done with at least one configured turn has executed
\* (asked the question of) exactly 1 turn in single-turn mode and exactly
\* Len(turns) turns in multi-turn mode, and current_turn equals that number.
C1_TurnsExecuted ==
    (pc = "done" /\ Len(turns) >= 1) =>
        /\ current_turn = (IF mode = "single-turn" THEN 1 ELSE Len(turns))
        /\ QuestionCount(transcript) = current_turn

C1_Witness ==
    /\ pc = "done"
    /\ mode = "single-turn"
    /\ Len(turns) = 3
    /\ current_turn = 1
    /\ QuestionCount(transcript) = 1

\* C2: the nodes a call has entered are, in order, init, then (respond, update)
\* pairs, then evaluate, then persist: init only first, respond only after init
\* or update and followed by nothing but update, update only after respond,
\* evaluate only after update and never followed by respond or update, persist
\* only after evaluate and last; a call that reaches done has entered init,
\* evaluate and persist exactly once each and respond at least once.
C2_StepOrder ==
    LET n == Len(trace)
        Count(step) == Cardinality({i \in 1..n : trace[i] = step})
    IN  /\ \A i \in 1..n :
              /\ (trace[i] = "init") <=> (i = 1)
              /\ trace[i] = "respond" => trace[i - 1] \in {"init", "update"}
              /\ trace[i] = "respond" /\ i < n => trace[i + 1] = "update"
              /\ trace[i] = "update" => i > 1 /\ trace[i - 1] = "respond"
              /\ trace[i] = "evaluate" => i > 1 /\ trace[i - 1] = "update"
              /\ trace[i] = "evaluate" /\ i < n => trace[i + 1] = "persist"
              /\ trace[i] = "persist" => i = n /\ i > 1 /\ trace[i - 1] = "evaluate"
        /\ pc = "done" =>
              /\ Count("init") = 1
              /\ Count("evaluate") = 1
              /\ Count("persist") = 1
              /\ Count("respond") >= 1
              /\ Count("respond") = Count("update")
              /\ trace[n] = "persist"

C2_Witness ==
    /\ pc = "done"
    /\ trace = <<"init", "respond", "update", "respond", "update", "evaluate", "persist">>

\* C3: a start_run call with no persona, no stimulus, steps <= 0 or a run mode
\* that is neither single-turn nor multi-turn can end in no other way than
\* ValidationError, and a start_run that ends with ValidationError has made no
\* gateway operation and no responder call and has left the stored runs,
\* events and reports as they were.
C3_InvalidInputsRejected ==
    [][(pc = "idle" /\ result'.op = "start_run") =>
        /\ result'.status = "ValidationError" =>
              /\ pc' = "idle"
              /\ gwOps' = 0
              /\ respCalls' = 0
              /\ runs' = runs /\ events' = events /\ reports' = reports
        /\ result'.status # "ValidationError" =>
              \A p \in 0..MaxPersonas, stimuli \in StimulusLists,
                 steps \in (-1)..MaxSteps, run_mode \in RunModeInputs :
                 (p = 0 \/ Len(stimuli) = 0 \/ steps <= 0
                  \/ run_mode \notin {"single-turn", "multi-turn"})
                 => ~StartRunWith(p, stimuli, steps, run_mode)]_vars

C3_Witness ==
    /\ pc = "idle"
    /\ result.op = "start_run"
    /\ result.status = "ValidationError"
    /\ \E r \in RunIds : runs[r] = "completed"

\* C4: for valid inputs start_run builds exactly `steps` turns, the i-th
\* (from 0) carrying stimuli[min(i, len(stimuli) - 1)].
C4_TurnsRepeatLastStimulus ==
    [][(pc = "idle" /\ result'.op = "start_run") =>
        \A p \in 1..MaxPersonas, stimuli \in StimulusLists, steps \in 1..MaxSteps,
           run_mode \in RunMode :
           (Len(stimuli) >= 1 /\ StartRunWith(p, stimuli, steps, run_mode))
           => /\ Len(turns') = steps
              /\ \A i \in 0..(steps - 1) :
                    turns'[i + 1] =
                        stimuli[(IF i <= Len(stimuli) - 1 THEN i ELSE Len(stimuli) - 1) + 1]]_vars

C4_Witness ==
    /\ pc = "init"
    /\ entry = "service"
    /\ turns = <<1, 2, 2>>

StartRunOver == pc = "idle" /\ result.op = "start_run" /\ result.status # "ValidationError"

\* C5 as stated: when the persona responder raised on every call of a start_run,
\* the call fails with RunFailedError and the run's row, if there is one, has
\* status failed.
C5_AsStated ==
    (StartRunOver /\ respKinds \subseteq {"raise"}) =>
        /\ result.status = "RunFailedError"
        /\ runs[result.run_id] # "none" => runs[result.run_id] = "failed"

\* C5 as amended: when the persona responder raised on every call of a
\* start_run, the call fails with RunFailedError; the run's row, if there is
\* one, has status failed when the best-effort set_status(FAILED) went through,
\* and keeps status running when that update failed and was swallowed.
C5_FailedWhenMarked ==
    (StartRunOver /\ respKinds \subseteq {"raise"}) =>
        /\ result.status = "RunFailedError"
        /\ marked \in {"ok", "swallowed"}
        /\ (runs[result.run_id] # "none" /\ marked = "ok") => runs[result.run_id] = "failed"
        /\ (runs[result.run_id] # "none" /\ marked = "swallowed")
              => runs[result.run_id] = "running"

C5_Witness ==
    /\ StartRunOver
    /\ respKinds = {"raise"}
    /\ result.status = "RunFailedError"
    /\ marked = "ok"
    /\ runs[result.run_id] = "failed"

\* C6 as stated: a start_run with valid inputs in which every persona responder
\* call gave a schema-valid payload, the evaluation responder did not raise and
\* no gateway call failed returns the run id, and that run is stored completed.
C6_AsStated ==
    (/\ StartRunOver
     /\ respKinds \subseteq {"typed", "json_valid"}
     /\ ~evalRaised
     /\ ~gwFailed)
    => /\ result.status = "ok"
       /\ runs[result.run_id] = "completed"

PassedInit == Len(trace) >= 2

\* C7: whenever the run in memory is stored as completed, get_run gives back
\* its in-memory transcript, event for event in order, and its report is the
\* stored one; completed is therefore written only after those writes.
C7_CompletedMeansPersisted ==
    (run_id # 0 /\ PassedInit /\ runs[run_id] = "completed") =>
        LET dto == get_run(runs, events, reports, run_id)
        IN  /\ dto.transcript = transcript
            /\ outputs # "none"
            /\ dto.evaluation = outputs

C7_Witness ==
    /\ pc = "done"
    /\ runs[run_id] = "completed"
    /\ Len(transcript) = 5
    /\ \E i \in 1..Len(events) : events[i].run_id # run_id

\* C8: get_run of a run id that has no row fails with NotFoundError, whatever
\* runs other ids have been through.
C8_UnknownRunNotFound ==
    (result.op = "get_run" /\ runs[result.run_id] = "none") =>
        result.status = "NotFoundError"

C8_Witness ==
    /\ result.op = "get_run"
    /\ result.status = "NotFoundError"
    /\ runs[result.run_id] = "none"
    /\ \E r \in RunIds : r # result.run_id /\ runs[r] \in {"completed", "failed"}

\* C9: after any number of heuristic updates, with any stance and any
\* objections, trust_score, fatigue_score and risk_tolerance are within [0,1].
C9_ScoresWithinUnit ==
    /\ hcur.trust_score \in 0..One
    /\ hcur.fatigue_score \in 0..One
    /\ hcur.risk_tolerance \in 0..One

C9_Witness ==
    /\ hsteps = MaxHeurSteps
    /\ hprev.trust_score = One
    /\ hresp.stance = "yes"
    /\ hcur.trust_score = One
    /\ hcur.fatigue_score = 0

RefHighCount(objections) ==
    Cardinality({i \in 1..Len(objections) : objections[i] = "high"})

RefClamp(x) == IF x < 0 THEN 0 ELSE IF x > 1000 THEN 1000 ELSE x

RefTrustDelta(stance) ==
    CASE stance = "yes" -> 50 [] stance = "reluctant" -> -20 [] stance = "no" -> -50

RefFatigueDelta(stance) ==
    CASE stance = "yes" -> -30 [] stance = "reluctant" -> 20 [] stance = "no" -> 30

\* C10: the new trust and fatigue are the previous ones plus (+0.05, -0.03) for
\* yes, (-0.02, +0.02) for reluctant, (-0.05, +0.03) for no, then minus 0.03 of
\* trust and plus 0.02 of fatigue per objection of severity high, each then
\* clamped to [0,1]; objections of other severities change nothing.
C10_TrustFatigueReference ==
    hsteps > 0 =>
        /\ hcur.trust_score =
               RefClamp(hprev.trust_score + RefTrustDelta(hresp.stance)
                        - 30 * RefHighCount(hresp.objections))
        /\ hcur.fatigue_score =
               RefClamp(hprev.fatigue_score + RefFatigueDelta(hresp.stance)
                        + 20 * RefHighCount(hresp.objections))

C10_Witness ==
    /\ hsteps > 0
    /\ hprev.trust_score = 500
    /\ hprev.fatigue_score = 0
    /\ hresp = [stance |-> "yes", objections |-> <<"high", "high">>]
    /\ hcur.trust_score = 490
    /\ hcur.fatigue_score = 10

\* C11: the new risk_tolerance is the previous risk_tolerance minus 0.2 times
\* the new fatigue (after the stance and objection adjustment and its clamp),
\* clamped to [0,1]; the previous fatigue plays no part in it.
C11_RiskFromUpdatedFatigue ==
    hsteps > 0 =>
        LET fatigue_after ==
                RefClamp(hprev.fatigue_score + RefFatigueDelta(hresp.stance)
                         + 20 * RefHighCount(hresp.objections))
        IN  hcur.risk_tolerance = RefClamp(hprev.risk_tolerance - fatigue_after \div 5)

C11_Witness ==
    /\ hsteps > 0
    /\ hprev = [trust_score |-> 500, fatigue_score |-> 100, risk_tolerance |-> 700]
    /\ hresp = [stance |-> "yes", objections |-> <<>>]
    /\ hcur = [trust_score |-> 550, fatigue_score |-> 70, risk_tolerance |-> 686]

(***************************************************************************)
(* The validator's claims read the record of llm.invoke calls.             *)
(***************************************************************************)
RefValid(content) == content.form = "json" /\ content.complete
RefError(content) == IF content.form = "json" THEN "ValidationError" ELSE "JSONDecodeError"
CallsOf(c) == {i \in 1..Len(llm_calls) : llm_calls[i].so_call = c}
RepliesOf(c) == {i \in CallsOf(c) : llm_calls[i].outcome # Raised}
RaisesOf(c) == {i \in CallsOf(c) : llm_calls[i].outcome = Raised}

\* C12: invoke_structured returns at the first reply that decodes and
\* validates: a valid reply is the last llm.invoke made and its value is the
\* one returned; when the validator returns, the replies of the call before
\* the last were all invalid, the last is the k-th reply with k <= 3, and the
\* model was invoked k times plus once per transport failure retried (exactly
\* k times when no invocation raised).
C12_ReturnsAtFirstValid ==
    /\ \A i \in 1..Len(llm_calls) :
          RefValid(llm_calls[i].outcome) =>
              /\ i = Len(llm_calls)
              /\ vpc = "returned"
              /\ vresult.kind = "value"
              /\ vresult.value.stance = llm_calls[i].outcome.stance
    /\ (vpc = "returned" /\ so_call > 0) =>
          LET k == Cardinality(RepliesOf(so_call))
          IN  /\ Len(llm_calls) \in RepliesOf(so_call)
              /\ RefValid(llm_calls[Len(llm_calls)].outcome)
              /\ k \in 1..3
              /\ llm_calls[Len(llm_calls)].attempt = k - 1
              /\ Cardinality(CallsOf(so_call)) = k + Cardinality(RaisesOf(so_call))
              /\ RaisesOf(so_call) = {} => Cardinality(CallsOf(so_call)) = k

C12_Witness ==
    /\ raw_response = "direct"
    /\ vpc = "returned"
    /\ Len(llm_calls) = 2
    /\ llm_calls[1].outcome.form = "garbage"
    /\ llm_calls[2].outcome = [form |-> "json", complete |-> TRUE, stance |-> "no"]
    /\ vresult.value.stance = "no"

\* C13: when every reply of an invoke_structured call fails to decode or
\* validate, the call ends after its third reply with StructuredOutputError
\* whose cause is the error of that third reply, having invoked the model 3
\* times when no invocation raised; no call ever gets a fourth reply, and
\* without a valid reply no value is returned.
C13_FailsAfterThreeInvalid ==
    /\ \A c \in 1..so_call : Cardinality(RepliesOf(c)) <= 3
    /\ vpc = "invoke" => Cardinality(RepliesOf(so_call)) < 3
    /\ (vpc = "returned" /\ so_call > 0) =>
          \E i \in RepliesOf(so_call) : RefValid(llm_calls[i].outcome)
    /\ (vpc = "raised" /\ vresult.cause # "transport") =>
          /\ vresult.kind = "StructuredOutputError"
          /\ Cardinality(RepliesOf(so_call)) = 3
          /\ \A i \in RepliesOf(so_call) : ~RefValid(llm_calls[i].outcome)
          /\ Len(llm_calls) \in RepliesOf(so_call)
          /\ vresult.cause = RefError(llm_calls[Len(llm_calls)].outcome)
          /\ RaisesOf(so_call) = {} => Cardinality(CallsOf(so_call)) = 3

C13_Witness ==
    /\ raw_response = "direct"
    /\ vpc = "raised"
    /\ Len(llm_calls) = 3
    /\ llm_calls[1].outcome.form = "json"
    /\ llm_calls[2].outcome.form = "json"
    /\ llm_calls[3].outcome.form = "garbage"
    /\ vresult = [kind |-> "StructuredOutputError", value |-> NoValue,
                  cause |-> "JSONDecodeError"]

\* the llm.invoke calls that raised in a row up to call i
RECURSIVE RaisedInARow(_)
RaisedInARow(i) ==
    IF i = 0 THEN 0
    ELSE IF llm_calls[i].outcome # Raised THEN 0
    ELSE IF i > 1 /\ llm_calls[i - 1].so_call # llm_calls[i].so_call THEN 1
    ELSE 1 + RaisedInARow(i - 1)

\* C14 as stated: an llm.invoke that raises is the last one the validator
\* makes, and the validator has failed.
C14_AsStated ==
    \A i \in 1..Len(llm_calls) :
        llm_calls[i].outcome = Raised => (i = Len(llm_calls) /\ vpc = "raised")

\* C14 as amended: an llm.invoke that raises is made again, with the same
\* messages and within the same validation attempt, until it has raised 3
\* times in a row; the third raise in a row ends the invoke_structured call
\* with StructuredOutputError caused by the transport error, with no further
\* llm.invoke in that call.
C14_TransportRetriedThrice ==
    \A i \in 1..Len(llm_calls) :
        llm_calls[i].outcome = Raised =>
            /\ RaisedInARow(i) <= 3
            /\ RaisedInARow(i) < 3 =>
                  IF i = Len(llm_calls)
                  THEN vpc = "invoke" /\ messages = llm_calls[i].sent
                       /\ attempt = llm_calls[i].attempt
                       /\ so_call = llm_calls[i].so_call
                  ELSE /\ llm_calls[i + 1].sent = llm_calls[i].sent
                       /\ llm_calls[i + 1].attempt = llm_calls[i].attempt
                       /\ llm_calls[i + 1].so_call = llm_calls[i].so_call
            /\ RaisedInARow(i) = 3 =>
                  IF i = Len(llm_calls)
                  THEN \/ vpc = "raised" /\ vresult.kind = "StructuredOutputError"
                          /\ vresult.cause = "transport"
                       \/ so_call = llm_calls[i].so_call + 1
                  ELSE llm_calls[i + 1].so_call = llm_calls[i].so_call + 1

C14_Witness ==
    /\ raw_response = "direct"
    /\ vpc = "raised"
    /\ vresult.cause = "transport"
    /\ Len(llm_calls) = 4
    /\ llm_calls[1].outcome.form = "garbage"
    /\ \A i \in 2..4 : llm_calls[i].outcome = Raised /\ llm_calls[i].sent = llm_calls[2].sent

\* the corrective message for a reply
RefGuidance(content) ==
    [role |-> "guidance", error |-> RefError(content), last_content |-> content]

\* the replies of the same invoke_structured call made before call i
RepliesBefore(i) == {j \in RepliesOf(llm_calls[i].so_call) : j < i}

\* C19 as stated: the messages sent after k failed validation attempts are
\* the original conversation followed by k corrective messages.
C19_AsStated ==
    \A i \in 1..Len(llm_calls) :
        /\ Len(llm_calls[i].sent) = Len(PromptMessages) + Cardinality(RepliesBefore(i))
        /\ SubSeq(llm_calls[i].sent, 1, Len(PromptMessages)) = PromptMessages

\* C19 as amended: the messages sent before any failed validation attempt are
\* the original conversation; after k >= 1 failed attempts they are the
\* original conversation followed by one corrective message, which holds the
\* validation error and the raw reply of the latest failed attempt.
C19_OneCorrectiveMessage ==
    \A i \in 1..Len(llm_calls) :
        LET before == RepliesBefore(i)
            latest == CHOOSE j \in before : \A h \in before : h <= j
        IN  /\ llm_calls[i].attempt = Cardinality(before)
            /\ llm_calls[i].sent =
                   IF before = {} THEN PromptMessages
                   ELSE Append(PromptMessages, RefGuidance(llm_calls[latest].outcome))

C19_Witness ==
    /\ Len(llm_calls) = 3
    /\ llm_calls[1].outcome.form = "garbage"
    /\ llm_calls[2].outcome = [form |-> "json", complete |-> FALSE, stance |-> "yes"]
    /\ llm_calls[3].attempt = 2
    /\ llm_calls[3].sent =
           Append(PromptMessages, RefGuidance(llm_calls[2].outcome))

\* C20 as stated: for one raw reply _parse_persona_response enters
\* invoke_structured at most once and so validates at most 3 replies.
C20_AsStated ==
    /\ so_call <= 1
    /\ Cardinality({i \in 1..Len(llm_calls) : llm_calls[i].outcome # Raised}) <= 3

\* the turns a run executes: none of an empty turn list, 1 in single-turn
\* mode, all of them in multi-turn mode
ExecutedTurns == IF Len(turns) = 0 THEN 0 ELSE IF mode = "single-turn" THEN 1 ELSE Len(turns)

EventsOfType(tr, event_type) == {i \in 1..Len(tr) : tr[i].event_type = event_type}

QuestionSteps(tr) ==
    LET F[i \in 0..Len(tr)] ==
            IF i = 0 THEN <<>>
            ELSE IF tr[i].event_type = "question" THEN Append(F[i - 1], tr[i].meta.step)
            ELSE F[i - 1]
    IN  F[Len(tr)]

\* C17: while a run is in flight current_turn never decreases, the update
\* step adds exactly 1 to it and no other step changes it, and the question
\* events of the run carry the turn numbers 1, 2, 3, ... each once, none
\* beyond the current turn's.
C17_TurnsOnceForward ==
    [][(pc # "idle" /\ pc' # "idle") =>
        /\ current_turn' >= current_turn
        /\ pc = "update" => current_turn' = current_turn + 1
        /\ pc # "update" => current_turn' = current_turn
        /\ LET steps == QuestionSteps(transcript')
           IN  /\ \A i \in 1..Len(steps) : steps[i] = i
               /\ Len(steps) <= current_turn' + 1]_vars

C17_Witness ==
    /\ pc = "done"
    /\ current_turn = 3
    /\ QuestionSteps(transcript) = <<1, 2, 3>>

TimesEntered(node) == Cardinality({i \in 1..Len(trace) : trace[i] = node})

\* the turn limit _route_after_update and persona_response_node compute
MaxTurns == IF mode = "single-turn" THEN 1 ELSE IF Len(turns) = 0 THEN 1 ELSE Len(turns)

\* C18: an invocation of the graph, from any mode, turn list and initial
\* current_turn, eventually reaches done or aborts with an exception, given
\* that every node entered returns or raises; the respond/update loop is
\* entered at most max(1, turn limit - initial current_turn) times.
C18_RunTerminates ==
    /\ <>(pc \in {"done", "raised"})
    /\ [](LET initial_turn == current_turn - TimesEntered("update")
              rounds == IF MaxTurns - initial_turn > 1 THEN MaxTurns - initial_turn ELSE 1
          IN  /\ TimesEntered("respond") <= rounds
              /\ TimesEntered("update") <= rounds)

C18_Witness ==
    /\ pc = "done"
    /\ turns = <<>>
    /\ current_turn = MaxInitialTurn + 1
    /\ trace = <<"init", "respond", "update", "evaluate", "persist">>

IsPrefix(a, b) == Len(a) <= Len(b) /\ \A i \in 1..Len(a) : a[i] = b[i]

\* what a run with the slot's inputs has in its transcript when it is done
\* after executing alone, answers aside: the system event, the question of
\* each executed turn, the evaluation event with its report
AloneTranscript(sl) ==
    LET T == IF sl.mode = "single-turn" THEN 1 ELSE Len(sl.turns)
    IN  <<TranscriptEvent("system", 0, "Simulation started", 0, NoneMeta)>>
        \o [t \in 1..T |->
               TranscriptEvent("question", 0, "Stimulus", sl.turns[t], StepMeta(t))]
        \o <<TranscriptEvent("evaluation", 0, "Evaluation completed", 0,
                             [NoneMeta EXCEPT !.none = FALSE, !.report = sl.outputs])>>

WithoutAnswers(tr) ==
    LET F[i \in 0..Len(tr)] ==
            IF i = 0 THEN <<>>
            ELSE IF tr[i].event_type = "answer" THEN F[i - 1] ELSE Append(F[i - 1], tr[i])
    IN  F[Len(tr)]

\* C16: with two calls interleaved at their awaits in any order, what is
\* stored under a run's identifier comes from that run alone: once a call is
\* past init, get_run of its run id gives a prefix of its own transcript and
\* no report but its own, with status running until the call itself is done;
\* a call that is done has the transcript its inputs give when run alone, and
\* get_run gives exactly that transcript, its report and status completed.
C16_RunsIsolated ==
    \A sl \in {Executing, parked} :
        LET dto == get_run(runs, events, reports, sl.run_id)
        IN  /\ (sl.pc # "idle" /\ Len(sl.trace) >= 2) =>
                  /\ dto.found
                  /\ IsPrefix(dto.transcript, sl.transcript)
                  /\ dto.evaluation \in {"none", sl.outputs}
                  /\ dto.status = IF sl.pc = "done" THEN "completed" ELSE "running"
            /\ sl.pc = "done" =>
                  /\ dto.transcript = sl.transcript
                  /\ dto.evaluation = sl.outputs
                  /\ sl.outputs # "none"
                  /\ WithoutAnswers(sl.transcript) = AloneTranscript(sl)

C16_Witness ==
    /\ pc = "done"
    /\ parked.pc = "done"
    /\ run_id # parked.run_id
    /\ Len(transcript) # Len(parked.transcript)
    /\ \E i, j, k \in 1..Len(events) :
          /\ i < j /\ j < k
          /\ events[i].run_id = events[k].run_id
          /\ events[j].run_id # events[i].run_id

ValidKinds == {"typed", "json_valid"}

\* C21 as stated: once the personas of a turn have been asked and every reply
\* was a schema-valid payload, the turn's question is in the transcript, the
\* persona responder has been invoked once per persona of every turn asked,
\* and the transcript holds one answer event per invocation, in persona order
\* after the turn's question.
C21_AsStated ==
    (pc \notin {"idle", "asking"} /\ respCalls >= 1 /\ respKinds \subseteq ValidKinds) =>
        LET questions == EventsOfType(transcript, "question")
            answers == EventsOfType(transcript, "answer")
        IN  /\ Cardinality(questions) >= 1
            /\ respCalls = personas * Cardinality(questions)
            /\ Cardinality(answers) = respCalls
            /\ \A i \in answers :
                  /\ i > 1
                  /\ transcript[i].actor =
                         IF transcript[i - 1].event_type = "question" THEN 1
                         ELSE transcript[i - 1].actor + 1

\* C22: the respond step, from any input state, leaves the persona-to-TrustState
\* map and current_turn as they were, whether it returns at once, asks a
\* persona, returns the new state or raises; nor does it touch the run id, the
\* personas, the mode, the turns or the report.
C22_RespondKeepsTrustAndTurn ==
    [][(pc = "respond" \/ pc = "asking") =>
        /\ persona_states' = persona_states
        /\ current_turn' = current_turn
        /\ UNCHANGED <<run_id, personas, mode, turns, outputs>>]_vars

C22_Witness ==
    /\ pc = "update"
    /\ trace = <<"init", "respond">>
    /\ mode = "multi-turn"
    /\ current_turn = 1
    /\ Len(transcript) = 2
    /\ transcript[2].event_type = "question"
    /\ transcript[2].meta.step = 2
    /\ DOMAIN persona_states = {1}
    /\ persona_states[1].trust_score = 800

\* C23: when the respond step is entered in single-turn mode with
\* current_turn >= 1, or with current_turn at or past the end of the turn
\* list (an empty list included), it returns its input: no event is appended,
\* no responder is invoked, no field of the state differs, and the run goes
\* on to update.
C23_RespondNoop ==
    [][(/\ pc = "respond"
        /\ \/ mode = "single-turn" /\ current_turn >= 1
           \/ current_turn >= Len(turns)) =>
        /\ pc' = "update"
        /\ respCalls' = respCalls
        /\ UNCHANGED <<transcript, latest_responses, persona_states, current_turn,
                       run_id, personas, mode, turns, outputs, idx, frame,
                       respKinds>>]_vars

C23_Witness ==
    /\ pc = "update"
    /\ trace = <<"init", "respond">>
    /\ mode = "single-turn"
    /\ current_turn = 1
    /\ Len(turns) = 3
    /\ personas = 2
    /\ respCalls = 0
    /\ Len(transcript) = 1
    /\ latest_responses = <<>>

\* C24 as stated: when every persona of a turn has been asked and has given a
\* schema-valid reply, the turn has one response per persona for the update
\* step, the run has not failed for it, and after the update step of the first
\* turn each persona's TrustState is one application of the heuristic to the
\* defaults it had before the turn.
C24_AsStated ==
    (/\ personas >= 1
     /\ respCalls >= personas
     /\ respKinds \subseteq ValidKinds
     /\ pc \notin {"idle", "asking"}) =>
        /\ Len(latest_responses) = personas
        /\ pc = "raised" => (gwFailed \/ evalRaised)
        /\ (current_turn = 1 /\ pc \in {"respond", "evaluate", "persist", "done"}) =>
              \A p \in 1..personas :
                  persona_states[p] =
                      apply_persona_heuristics(initialize_persona_state,
                                               latest_responses[p].summary,
                                               latest_responses[p].persona_mode)

\* C25: a successful init gives every persona of the list a TrustState,
\* creating the defaults (0.5, 0.0, 0.5) for the personas that had none and
\* leaving every entry that was there as it was; in every later step of the
\* run every persona of the list has an entry and no entry is deleted.
C25_EveryPersonaHasState ==
    [][/\ (pc = "init" /\ pc' # "raised") =>
              /\ DOMAIN persona_states' = (DOMAIN persona_states) \cup (1..personas)
              /\ \A p \in DOMAIN persona_states : persona_states'[p] = persona_states[p]
              /\ \A p \in (1..personas) \ DOMAIN persona_states :
                    persona_states'[p] =
                        [trust_score |-> 500, fatigue_score |-> 0, risk_tolerance |-> 500]
       /\ pc \notin {"init", "idle"} =>
              /\ \A p \in 1..personas :
                    p \in DOMAIN persona_states /\ p \in DOMAIN persona_states'
              /\ DOMAIN persona_states \subseteq DOMAIN persona_states']_vars

C25_Witness ==
    /\ pc = "done"
    /\ personas = 2
    /\ DOMAIN persona_states = {1, 2}
    /\ persona_states[1] = [trust_score |-> 800, fatigue_score |-> 100, risk_tolerance |-> 700]
    /\ persona_states[2] = [trust_score |-> 500, fatigue_score |-> 0, risk_tolerance |-> 500]

\* a run with an empty turn list: one respond that appends nothing and asks
\* nobody, one update that makes current_turn 1, then evaluate and persist
EmptyTurnListRun ==
    (Len(turns) = 0 /\ pc # "idle") =>
        /\ IsPrefix(trace, <<"init", "respond", "update", "evaluate", "persist">>)
        /\ current_turn = (IF Len(trace) >= 3 THEN 1 ELSE 0)
        /\ respCalls = 0
        /\ EventsOfType(transcript, "question") = {}
        /\ EventsOfType(transcript, "answer") = {}

\* C26: after update the run goes to respond iff the new current_turn is below
\* max_turns, else to evaluate, max_turns being 1 in single-turn mode and
\* otherwise the number of turns, 1 for an empty list; and a run with an empty
\* turn list does one no-op respond, one update to turn index 1, then
\* evaluates, with no question or answer event in its transcript.
C26_RoutingRule ==
    [][/\ pc = "update" =>
              LET limit == IF mode = "single-turn" THEN 1
                           ELSE IF Len(turns) = 0 THEN 1 ELSE Len(turns)
              IN  /\ pc' \in {"respond", "evaluate"}
                  /\ (pc' = "respond") <=> (current_turn' < limit)
       /\ EmptyTurnListRun
       /\ EmptyTurnListRun']_vars

C26_Witness ==
    /\ pc = "done"
    /\ turns = <<>>
    /\ mode = "multi-turn"
    /\ personas = 2
    /\ current_turn = 1
    /\ trace = <<"init", "respond", "update", "evaluate", "persist">>
    /\ Len(transcript) = 2

\* C27: the transcript of a run holds at most one evaluation event; the run
\* state carries a report iff that event is in the transcript, and the event
\* carries that report; the evaluation responder is invoked at most once, and
\* only when the question and answers of every executed turn are in the
\* transcript, so the evaluation event follows them all; in a run that is
\* done the responder was invoked exactly once and the evaluation event is
\* the last event.
C27_OneEvaluation ==
    LET evals == EventsOfType(transcript, "evaluation")
        asked == EventsOfType(transcript, "question") \cup EventsOfType(transcript, "answer")
    IN  /\ Cardinality(evals) <= 1
        /\ (outputs # "none") <=> (evals # {})
        /\ \A e \in evals :
              /\ transcript[e].meta.report = outputs
              /\ \A i \in asked : i < e
        /\ TimesEntered("evaluate") <= 1
        /\ evals # {} => TimesEntered("evaluate") = 1
        /\ (pc = "evaluate" \/ TimesEntered("evaluate") = 1) =>
              /\ Cardinality(EventsOfType(transcript, "question")) = ExecutedTurns
              /\ Cardinality(EventsOfType(transcript, "answer")) = ExecutedTurns * personas
        /\ pc = "done" =>
              /\ TimesEntered("evaluate") = 1
              /\ evals = {Len(transcript)}

C27_Witness ==
    /\ pc = "done"
    /\ outputs = "report_b"
    /\ TimesEntered("evaluate") = 1
    /\ Cardinality(EventsOfType(transcript, "question")) = 2
    /\ transcript[Len(transcript)].event_type = "evaluation"
    /\ transcript[Len(transcript)].meta.report = "report_b"

\* C28: every step of a run in flight leaves the transcript it found as a
\* prefix of the transcript it leaves (events are only appended, never edited,
\* reordered or removed), and once init has returned the first event of the
\* transcript is the system event "Simulation started".
C28_TranscriptAppendOnly ==
    [][(pc # "idle" /\ pc' # "idle") =>
        /\ Len(transcript) <= Len(transcript')
        /\ \A i \in 1..Len(transcript) : transcript'[i] = transcript[i]
        /\ Len(trace') >= 2 =>
              /\ Len(transcript') >= 1
              /\ transcript'[1].event_type = "system"
              /\ transcript'[1].content = "Simulation started"
              /\ transcript'[1].meta.none]_vars

C28_Witness ==
    /\ pc = "persist"
    /\ Len(transcript) = 4
    /\ transcript[1].content = "Simulation started"
    /\ transcript[2].event_type = "question"
    /\ transcript[3].event_type = "question"
    /\ transcript[4].event_type = "evaluation"

\* the step of the question event that most recently precedes event i
StepOfQuestionBefore(tr, i) ==
    LET before == {j \in EventsOfType(tr, "question") : j < i}
    IN  IF before = {} THEN 0
        ELSE tr[CHOOSE j \in before : \A h \in before : h <= j].meta.step

C30_EffectivePersonaMode ==
    \A t \in 1..Len(resolved_modes) :
        /\ resolved_modes[t] = resolved_modes[1]
        /\ Len(resolved_modes[t]) = Len(persona_list)
        /\ \A i \in 1..Len(persona_list) :
              resolved_modes[t][i] =
                  IF persona_list[i] \in DOMAIN persona_modes
                  THEN persona_modes[persona_list[i]]
                  ELSE CASE (i - 1) % 3 = 0 -> "economic_buyer"
                         [] (i - 1) % 3 = 1 -> "daily_user"
                         [] (i - 1) % 3 = 2 -> "anti_persona"

C30_Witness ==
    /\ Len(resolved_modes) = 2
    /\ persona_list = <<3, 1, 4, 2>>
    /\ DOMAIN persona_modes = {1, 3}
    /\ persona_modes[1] = "custom_mode"
    /\ persona_modes[3] = "anti_persona"
    /\ resolved_modes[2] = <<"anti_persona", "custom_mode", "anti_persona", "economic_buyer">>

\* C31: whatever made the state machine raise under start_run (a responder
\* failure, a StructuredOutputError, a gateway failure, including the failure
\* to create the run), start_run ends by raising RunFailedError for that run;
\* the best-effort set_status(FAILED) may itself fail (always so when the run
\* row was never created), in which case the store is left as it was and the
\* caller still gets RunFailedError, never the error of the status update.
C31_FailureBecomesRunFailedError ==
    [][/\ (pc = "raised" /\ entry = "service") =>
             /\ pc' = "idle"
             /\ result' = Outcome("start_run", "RunFailedError", run_id, BlankValue)
             /\ marked' \in {"ok", "swallowed"}
             /\ ~set_status_found(runs, run_id) => (marked' = "swallowed" /\ runs' = runs)
             /\ marked' = "swallowed" => runs' = runs
       /\ (StartRunOver' /\ (gwFailed' \/ evalRaised' \/ "raise" \in respKinds'
                               \/ marked' # "no"))
             => result'.status = "RunFailedError"
      ]_vars

C31_Witness ==
    /\ StartRunOver
    /\ result.status = "RunFailedError"
    /\ marked = "swallowed"
    /\ runs[result.run_id] = "none"
    /\ respKinds = {}

\* C32: apply_persona_heuristics does not depend on the persona mode and is
\* deterministic: the TrustState an update produced is the one the function
\* gives for the same previous TrustState and the same response summary under
\* every persona mode, and the previous TrustState handed in is left as it was.
C32_ModeIgnored ==
    [][hsteps' = hsteps + 1 =>
          /\ \A m \in PersonaModes : apply_persona_heuristics(hcur, hresp', m) = hcur'
          /\ \A m1, m2 \in PersonaModes :
                apply_persona_heuristics(hcur, hresp', m1)
                    = apply_persona_heuristics(hcur, hresp', m2)
          /\ hprev' = hcur
      ]_vars

C32_Witness ==
    /\ hsteps > 0
    /\ hprev = [trust_score |-> 500, fatigue_score |-> 0, risk_tolerance |-> 900]
    /\ hresp = [stance |-> "no", objections |-> <<"high">>]
    /\ hcur = [trust_score |-> 420, fatigue_score |-> 50, risk_tolerance |-> 890]
    /\ \A m \in PersonaModes : apply_persona_heuristics(hprev, hresp, m) = hcur

\* C33: set_status on a run id that has no run row fails with a lookup error
\* and leaves the whole store as it was (no run row appears, no other run's
\* status moves, no event or report changes); on a run id that has a row, that
\* row's status becomes exactly the status handed in and nothing else changes.
C33_SetStatus ==
    [][\A r \in RunIds, status \in SimulationStatus :
          GwSetStatusWith(r, status) =>
             /\ runs[r] = "none" =>
                   /\ result'.status = "LookupError"
                   /\ UNCHANGED <<runs, events, reports>>
             /\ runs[r] # "none" =>
                   /\ result'.status = "ok"
                   /\ runs'[r] = status
                   /\ \A o \in RunIds \ {r} : runs'[o] = runs[o]
                   /\ UNCHANGED <<events, reports>>
      ]_vars

C33_Witness ==
    /\ result.op = "set_status"
    /\ result.status = "LookupError"
    /\ result.run_id = 2
    /\ runs[2] = "none"
    /\ runs[1] = "completed"

\* C34: save_evaluation is an upsert.  The report stored for a run is the one
\* of the most recent save_evaluation for that run (a table keyed by run id:
\* one report per run), get_run of an existing run returns it, a call for one
\* run leaves every other run's report alone, and no other gateway call
\* changes a stored report.
C34_SaveEvaluationUpserts ==
    [][/\ \A r \in RunIds, report \in ReportValues, enforced \in BOOLEAN :
             (GwSaveEvaluationWith(r, report, enforced) /\ result'.status = "ok") =>
                /\ reports'[r] = report
                /\ \A o \in RunIds \ {r} : reports'[o] = reports[o]
                /\ runs[r] # "none" =>
                      get_run(runs', events', reports', r).evaluation = report
       /\ \A r \in RunIds :
             reports'[r] # reports[r] =>
                (result'.op = "save_evaluation" /\ result'.run_id = r
                    /\ result'.value.outputs = reports'[r])
      ]_vars

C34_Witness ==
    /\ result.op = "save_evaluation"
    /\ result.status = "ok"
    /\ result.run_id = 1
    /\ result.value.outputs = "report_b"
    /\ runs[1] = "running"
    /\ reports[1] = "report_b"
    /\ reports[2] = "report_a"
    /\ get_run(runs, events, reports, 1).evaluation = "report_b"

InFlight(p) == p = "respond" \/ p = "asking" \/ p = "update" \/ p = "evaluate" \/ p = "persist"

\* C35: init stores the run with status running, never created; the stored
\* status of a run in flight is running at respond, update, evaluate and
\* throughout the event and report writes of persist, whatever another run
\* does meanwhile; a stored status changes only in three ways: init creates
\* the row as running, the last call of persist turns running into completed,
\* the orchestrator's failure handler turns running into failed.
C35_RunningUntilCompletedOrFailed ==
    [][/\ \A r \in RunIds :
             runs'[r] # runs[r] =>
                /\ r = run_id
                /\ \/ pc = "init" /\ runs[r] = "none" /\ runs'[r] = "running"
                   \/ /\ pc = "persist"
                      /\ persisted = Len(transcript) + (IF outputs # "none" THEN 1 ELSE 0)
                      /\ runs[r] = "running"
                      /\ runs'[r] = "completed"
                   \/ /\ pc = "raised" /\ entry = "service"
                      /\ runs[r] = "running"
                      /\ runs'[r] = "failed"
       /\ InFlight(pc') => runs'[run_id'] = "running"
       /\ InFlight(parked'.pc) => runs'[parked'.run_id] = "running"
       /\ \A r \in RunIds : runs'[r] # "created"
      ]_vars

C35_Witness ==
    /\ pc = "persist"
    /\ persisted >= 2
    /\ persisted = Len(transcript)
    /\ runs[run_id] = "running"
    /\ parked.entry = "service"
    /\ parked.pc = "asking"
    /\ runs[parked.run_id] = "running"

RunInMemory(p, e, tc) == p # "idle" /\ (e = "service" \/ Len(tc) >= 2)

PersistedPrefix(p, e, tc, tr, eventsT, r) ==
    RunInMemory(p, e, tc) =>
       /\ IsPrefix(SelectRun(eventsT, r), tr)
       /\ (\A i \in 1..Len(tc) : tc[i] # "persist") => SelectRun(eventsT, r) = <<>>

FailedIn(node) == pc = "raised" /\ Len(trace) >= 1 /\ trace[Len(trace)] = node

FailedBeforePersist == FailedIn("respond") \/ FailedIn("update") \/ FailedIn("evaluate")

ThousandthF64 == Float(FALSE, <<0, 0, 0, 0, 5374, 3014, 2490, 4194, 0>>)

\* C39 as stated: for every heuristic update the new risk_tolerance is at
\* most the previous one, and it is strictly smaller whenever the updated
\* fatigue is positive and the previous risk_tolerance is positive.
C39_AsStated ==
    hsteps > 0 =>
        /\ ~FloatLess(hprev.risk_tolerance, hcur.risk_tolerance)
        /\ (FloatLess(F_0_0, hcur.fatigue_score) /\ FloatLess(F_0_0, hprev.risk_tolerance))
              => FloatLess(hcur.risk_tolerance, hprev.risk_tolerance)

\* C39 as amended: for every heuristic update the new risk_tolerance is at
\* most the previous one; it is strictly smaller whenever the previous
\* risk_tolerance is positive and the updated fatigue is at least 0.001; for a
\* smaller positive fatigue (the residue float arithmetic leaves where the
\* exact value would be 0) it may stay equal.
C39_RiskNeverIncreases ==
    hsteps > 0 =>
        /\ ~FloatLess(hprev.risk_tolerance, hcur.risk_tolerance)
        /\ (~FloatLess(hcur.fatigue_score, ThousandthF64)
               /\ FloatLess(F_0_0, hprev.risk_tolerance))
              => FloatLess(hcur.risk_tolerance, hprev.risk_tolerance)

C39_Witness ==
    /\ hsteps = 2
    /\ hresp.stance = "reluctant"
    /\ ~FloatLess(hcur.fatigue_score, ThousandthF64)
    /\ FloatLess(F_0_0, hprev.risk_tolerance)
    /\ FloatLess(hprev.risk_tolerance, F_0_5)
    /\ FloatLess(hcur.risk_tolerance, hprev.risk_tolerance)
    /\ FloatLess(F_0_0, hcur.risk_tolerance)

\* C40 as stated: whenever respond was a no-op (the turn limit was reached or
\* there is no turn input), the update that follows returns with every
\* persona's TrustState as it was, whatever GraphState the graph was invoked
\* on, a non-zero current_turn or non-empty latest_responses included.
C40_AsStated ==
    [][(pc = "update" /\ respond_noop(current_turn, mode, turns)) =>
          /\ pc' # "raised"
          /\ persona_states' = persona_states]_vars

====
